---- MODULE Spec2Model ----
(***************************************************************************)
(* Safety-observation reporting portal: the create form (SafetyReport),    *)
(* the edit view (ReportView) and the reports table (SafetyReportsTable),  *)
(* acting on one remote store (tables observation_details,                 *)
(* observation_categories, action_plans, and the storage buckets).         *)
(*                                                                         *)
(* Every handler is an async function: it is modelled one step per await,  *)
(* the step taking the remote call's outcome (success or error) as a       *)
(* nondeterministic input and running the synchronous code up to the next  *)
(* await.  A handler reads the component state of the render it was        *)
(* created in (its closure).                                               *)
(***************************************************************************)
EXTENDS Integers, Sequences, FiniteSets, TLC

\* ------------------------------------------------------------- bounds
MaxPlans == 2        \* staged Action Plans of one create form
MaxSubmits == 2      \* clicks on Submit of one create form
MaxNow == 1          \* clock ticks (Date.now()) during one run
MaxStoredPlans == 2  \* Action Plans stored for the Observation being edited
MaxUpdates == 1      \* submits of the edit form of one view
MaxSaves == 1        \* clicks on Save Changes of one view
MaxConfirms == 2     \* clicks on Delete Report of one table
MaxPending == 2      \* loadReports queries in flight at once
MaxPage == 3         \* highest page the Next button is followed to
MaxRows == 11        \* Observations stored when the table is paged
MaxSortClicks == 3   \* clicks on column headers of one table
MaxRenders == 2      \* documents rendered within one page lifetime
MaxPdfPlans == 2     \* Action Plans of a rendered report

\* ------------------------------------------------------------- values
Categories == {"c1", "c2"}
CategorySeq == <<"c1", "c2">>    \* the order the store answers in
Null == "null"
NoImage == <<"null">>    \* a null supporting_image
EmptyPath == <<>>        \* the empty string as an image path
NoRoute == <<>>          \* no navigation happened
None == <<>>             \* a local that holds no row
NoFile == <<>>           \* no file chosen; a file is the sequence of the
                         \* characters of its name
FileA == <<"a", ".", "p", "n", "g">>
UserId == "u1"

RequiredFields ==
  {"project", "company", "submitterName", "date", "time", "location",
   "description", "reportGroup", "consequences", "likelihood", "subject"}

FormFields == RequiredFields \cup {"department"}

\* One value a user can give each field: free text, or an option of the
\* field's select.
Filled ==
  [project |-> "p1", company |-> "co1", submitterName |-> "ann",
   date |-> "2024-01-01", time |-> "10:00", department |-> "",
   location |-> "dock", description |-> "spill", reportGroup |-> "operations",
   consequences |-> "minor", likelihood |-> "unlikely", subject |-> "SOR"]

\* The form as constructed: date and time are the current date and time,
\* subject is 'SOR', the other fields are empty.
InitialForm ==
  [f \in FormFields |->
     IF f \in {"date", "time", "subject"} THEN Filled[f] ELSE ""]

\* The drafts a user types into the general-information section.
Drafts ==
  { Filled,
    [Filled EXCEPT !.subject = "SOP", !.reportGroup = "safety"],
    [Filled EXCEPT !.location = ""] }

\* Every combination of empty and filled required fields.
AllDrafts ==
  { [f \in FormFields |-> IF f \in S THEN Filled[f] ELSE ""] :
      S \in SUBSET RequiredFields }

EmptyPlan ==
  [action |-> "", dueDate |-> "", responsiblePerson |-> "",
   followUpContact |-> "", status |-> "open"]

PlanA ==
  [action |-> "a", dueDate |-> "2024-02-01", responsiblePerson |-> "bob",
   followUpContact |-> "eve", status |-> "open"]

PlanB == [PlanA EXCEPT !.action = "b"]

\* What the action-plan sub-form can hold after typing.
PlanDrafts == {EmptyPlan, PlanA, PlanB, [PlanA EXCEPT !.dueDate = ""]}

\* The staged lists handleSaveActionPlan can build from PlanA and PlanB.
StagedLists == UNION {[1..n -> {PlanA, PlanB}] : n \in 0..MaxPlans}

\* A row of the store that exists before the client starts.
OldObservation ==
  [id |-> 1, project_id |-> "p0", company_id |-> "co0",
   submitter_name |-> "old", date |-> "2023-01-01", time |-> "09:00",
   department |-> "", location |-> "yard", description |-> "old",
   report_group |-> "operations", consequences |-> "minor",
   likelihood |-> "unlikely", status |-> "open", subject |-> "SOR",
   corrective_action |-> FALSE, supporting_image |-> NoImage,
   created_by |-> UserId]

VARIABLES
  \* the remote store
  observation_details,     \* set of Observation rows
  observation_categories,  \* set of [observation_id, category_id]
  action_plans,            \* set of Action Plan rows
  storage,                 \* [bucket -> set of object keys]
  nextObsId, nextPlanId,   \* the ids the store gives the next inserted rows
  now,                     \* Date.now()
  \* SafetyReport (create form) state
  form, status, imageFile, selectedCategories, actionPlans,
  currentActionPlan, actionPlanRequired, validationErrors, loading, error,
  toast, navigatedTo,
  \* the running handleSubmit: position, locals, and the requests it issued
  pc, user, imagePath, savedReport, reqs, submits,
  \* ReportView (edit view of the Observation with id rv_id) state
  rv_id, rv_loading, rv_error, rv_report, rv_form, rv_status,
  rv_selectedCategories, rv_actionPlans, rv_actionPlanRequired,
  rv_imageFile, editingActionPlanIndex, editedActionPlan,
  editedActionPlanImageFile, saving, rv_toast, rv_navigatedTo,
  \* the running ReportView.handleSubmit
  rv_pc, rv_submits, rv_imagePath, rv_reqs,
  \* the running handleSaveEditedActionPlan: position, the state of the
  \* render it was started from, and its locals
  se_pc, se_closure, se_imagePath, se_saves,
  \* the running handleDeleteActionPlan, if any: the index it was called
  \* with and the list of the render it was started from
  del_closure,
  \* SafetyReportsTable state
  reports, tbl_loading, tbl_error, currentPage, totalPages, reportToDelete,
  filters, sortConfig, tbl_toast,
  \* the loadReports queries in flight, each with the state of its render,
  \* and the query answered last with its outcome
  lr_pending, lr_answered,
  \* the column headers clicked so far, in order
  sortClicks,
  \* the rows of the file exportToCSV wrote last, if any
  exported,
  \* SafetyReportPDF: the module's imageCache; the report prop; where
  \* loadImages is and at which image; its local urls and the imageUrls
  \* state; the fetches issued; the values loadImage returned in this pass;
  \* the documents rendered so far
  imageCache, pdf_report, pdf_pc, pdf_i, urls, imageUrls, pdf_fetches,
  pdf_returned, pdf_renders,
  \* the running confirmDelete: position, the target of the render it was
  \* started from, and the requests it issued
  cd_pc, cd_target, cd_reqs, cd_confirms

storeVars ==
  <<observation_details, observation_categories, action_plans, storage,
    nextObsId, nextPlanId, now>>

formVars ==
  <<form, status, imageFile, selectedCategories, actionPlans,
    currentActionPlan, actionPlanRequired>>

submitVars ==
  <<validationErrors, loading, error, toast, navigatedTo, pc, user,
    imagePath, savedReport, reqs, submits>>

viewVars ==
  <<rv_id, rv_loading, rv_error, rv_report, rv_form, rv_status,
    rv_selectedCategories, rv_actionPlans, rv_actionPlanRequired,
    rv_imageFile, editingActionPlanIndex, editedActionPlan,
    editedActionPlanImageFile, saving, rv_toast, rv_navigatedTo>>

updateVars == <<rv_pc, rv_submits, rv_imagePath, rv_reqs>>

saveEditedVars == <<se_pc, se_closure, se_imagePath, se_saves, del_closure>>

tableVars ==
  <<reports, tbl_loading, tbl_error, currentPage, totalPages, reportToDelete,
    filters, sortConfig, tbl_toast, lr_pending, lr_answered,
                 sortClicks, exported>>

confirmVars == <<cd_pc, cd_target, cd_reqs, cd_confirms>>

pdfVars ==
  <<imageCache, pdf_report, pdf_pc, pdf_i, urls, imageUrls, pdf_fetches,
    pdf_returned, pdf_renders>>

\* The components other than the create form.
notCreateVars ==
  <<viewVars, updateVars, saveEditedVars, tableVars, confirmVars, pdfVars>>

\* The components other than the edit view.
notViewVars == <<formVars, submitVars, tableVars, confirmVars, pdfVars>>

\* The components other than the table.
notTableVars ==
  <<formVars, submitVars, viewVars, updateVars, saveEditedVars, pdfVars>>

vars == <<storeVars, formVars, submitVars, viewVars, updateVars,
          saveEditedVars, tableVars, confirmVars, pdfVars>>

\* ------------------------------------------------------------ helpers
Range(s) == {s[i] : i \in 1..Len(s)}

Contains(s, x) == \E i \in 1..Len(s) : s[i] = x

\* Array.prototype.filter(id => id # x)
Without(s, x) == SelectSeq(s, LAMBDA y : y # x)

Request(op, target, ok, obsIds) ==
  [op |-> op, target |-> target, ok |-> ok, obsIds |-> obsIds]

\* --------------------------------------------------- the store at start
StoreInit ==
  /\ observation_details = {OldObservation}
  /\ observation_categories = {[observation_id |-> 1, category_id |-> "c1"]}
  /\ action_plans = {}
  /\ storage = [b \in {"safety-images", "action-plan-images"} |-> {}]
  /\ nextObsId = 2
  /\ nextPlanId = 1
  /\ now = 0

\* Time passes.
Tick ==
  /\ now < MaxNow
  /\ now' = now + 1
  /\ UNCHANGED <<observation_details, observation_categories, action_plans,
                 storage, nextObsId, nextPlanId>>
  /\ UNCHANGED <<formVars, submitVars>>
  /\ UNCHANGED notCreateVars

\* ===================================================== SafetyReport
\* The component is displayed until handleSubmit navigates away.
Mounted == navigatedTo = NoRoute

\* The setters below only write form state, and a running handleSubmit
\* reads the form state of the render it was started from, so a setter
\* commutes with every step of a running handleSubmit: setters are taken
\* while no handleSubmit is running.
Editable == Mounted /\ pc = "idle"

FormInit ==
  /\ form = InitialForm
  /\ status = "open"
  /\ imageFile = NoFile
  /\ selectedCategories = <<>>
  /\ actionPlans = <<>>
  /\ currentActionPlan = EmptyPlan
  /\ actionPlanRequired = "no"

SubmitInit ==
  /\ validationErrors = {}
  /\ loading = FALSE
  /\ error = Null
  /\ toast = Null
  /\ navigatedTo = NoRoute
  /\ pc = "idle"
  /\ user = Null
  /\ imagePath = EmptyPath
  /\ savedReport = None
  /\ reqs = <<>>
  /\ submits = 0

\* The onChange handlers of the general-information inputs.
FillForm(d) ==
  /\ Editable
  /\ form' = d
  /\ UNCHANGED <<status, imageFile, selectedCategories, actionPlans,
                 currentActionPlan, actionPlanRequired>>
  /\ UNCHANGED <<storeVars, submitVars>>
  /\ UNCHANGED notCreateVars

handleCategorySelect(categoryId) ==
  /\ Editable
  /\ selectedCategories' =
       IF Contains(selectedCategories, categoryId)
       THEN Without(selectedCategories, categoryId)
       ELSE Append(selectedCategories, categoryId)
  /\ UNCHANGED <<form, status, imageFile, actionPlans, currentActionPlan,
                 actionPlanRequired>>
  /\ UNCHANGED <<storeVars, submitVars>>
  /\ UNCHANGED notCreateVars

setStatus(s) ==
  /\ Editable
  /\ status' = s
  /\ UNCHANGED <<form, imageFile, selectedCategories, actionPlans,
                 currentActionPlan, actionPlanRequired>>
  /\ UNCHANGED <<storeVars, submitVars>>
  /\ UNCHANGED notCreateVars

handleImageChange(file) ==
  /\ Editable
  /\ imageFile' = IF file # NoFile THEN file ELSE imageFile
  /\ UNCHANGED <<form, status, selectedCategories, actionPlans,
                 currentActionPlan, actionPlanRequired>>
  /\ UNCHANGED <<storeVars, submitVars>>
  /\ UNCHANGED notCreateVars

setActionPlanRequired(v) ==
  /\ Editable
  /\ actionPlanRequired' = v
  /\ UNCHANGED <<form, status, imageFile, selectedCategories, actionPlans,
                 currentActionPlan>>
  /\ UNCHANGED <<storeVars, submitVars>>
  /\ UNCHANGED notCreateVars

\* The action-plan sub-form is rendered while actionPlanRequired is 'yes'.
setCurrentActionPlan(p) ==
  /\ Editable
  /\ actionPlanRequired = "yes"
  /\ currentActionPlan' = p
  /\ UNCHANGED <<form, status, imageFile, selectedCategories, actionPlans,
                 actionPlanRequired>>
  /\ UNCHANGED <<storeVars, submitVars>>
  /\ UNCHANGED notCreateVars

\* A save that stages a draft whatever it holds.
handleSaveActionPlan_Unvalidated(addAnother) ==
  /\ Editable
  /\ actionPlanRequired = "yes"
  /\ Len(actionPlans) < MaxPlans
  /\ actionPlans' = Append(actionPlans, currentActionPlan)
  /\ toast' = "Action plan saved"
  /\ currentActionPlan' = IF addAnother THEN EmptyPlan ELSE currentActionPlan
  /\ UNCHANGED <<form, status, imageFile, selectedCategories,
                 actionPlanRequired>>
  /\ UNCHANGED <<validationErrors, loading, error, navigatedTo, pc, user,
                 imagePath, savedReport, reqs, submits>>
  /\ UNCHANGED storeVars
  /\ UNCHANGED notCreateVars

ActionPlanComplete(p) ==
  /\ p.action # ""
  /\ p.dueDate # ""
  /\ p.responsiblePerson # ""
  /\ p.followUpContact # ""

handleSaveActionPlan(addAnother) ==
  /\ Editable
  /\ actionPlanRequired = "yes"
  /\ IF ~ActionPlanComplete(currentActionPlan)
     THEN /\ toast' = "Please fill in all action plan fields"
          /\ UNCHANGED <<actionPlans, currentActionPlan>>
     ELSE /\ Len(actionPlans) < MaxPlans
          /\ actionPlans' = Append(actionPlans, currentActionPlan)
          /\ toast' = "Action plan saved"
          /\ currentActionPlan' =
               IF addAnother THEN EmptyPlan ELSE currentActionPlan
  /\ UNCHANGED <<form, status, imageFile, selectedCategories,
                 actionPlanRequired>>
  /\ UNCHANGED <<validationErrors, loading, error, navigatedTo, pc, user,
                 imagePath, savedReport, reqs, submits>>
  /\ UNCHANGED storeVars
  /\ UNCHANGED notCreateVars

\* validateForm without its check of the selected categories.
validateForm_NoCategories ==
  {f \in RequiredFields : form[f] = ""}
    \cup (IF actionPlanRequired = "yes" /\ Len(actionPlans) = 0
          THEN {"actionPlans"} ELSE {})

\* The keys of the error map validateForm builds.
validateForm ==
  {f \in RequiredFields : form[f] = ""}
    \cup (IF Len(selectedCategories) = 0 THEN {"categories"} ELSE {})
    \cup (IF actionPlanRequired = "yes" /\ Len(actionPlans) = 0
          THEN {"actionPlans"} ELSE {})

\* A catch block with no finally after it: loading stays on.
Fail_StaysBusy(msg) ==
  /\ error' = msg
  /\ toast' = msg
  /\ loading' = loading
  /\ pc' = "idle"
  /\ UNCHANGED <<validationErrors, navigatedTo, submits>>

\* A catch block that also leaves for the list of reports.
Fail_Navigates(msg) ==
  /\ error' = msg
  /\ toast' = msg
  /\ loading' = FALSE
  /\ pc' = "idle"
  /\ navigatedTo' = <<"reports", 0>>
  /\ UNCHANGED <<validationErrors, submits>>

\* ------------------------------------------ SafetyReport.handleSubmit
\* catch: the message is shown in the form and as a toast; finally:
\* loading is reset.
Fail(msg) ==
  /\ error' = msg
  /\ toast' = msg
  /\ loading' = FALSE
  /\ pc' = "idle"
  /\ UNCHANGED <<validationErrors, navigatedTo, submits>>

\* The end of the try block: success toast, navigate, then finally.
Finish(report) ==
  /\ toast' = "Safety report saved successfully!"
  /\ navigatedTo' = <<"reports", report.id>>
  /\ loading' = FALSE
  /\ pc' = "idle"
  /\ UNCHANGED <<validationErrors, error, submits>>

Continue(next) ==
  /\ pc' = next
  /\ UNCHANGED <<validationErrors, loading, error, toast, navigatedTo,
                 submits>>

\* The row handleSubmit inserts into observation_details.
ObservationRow(id, uid, path) ==
  [id |-> id, project_id |-> form.project, company_id |-> form.company,
   submitter_name |-> form.submitterName, date |-> form.date,
   time |-> form.time, department |-> form.department,
   location |-> form.location, description |-> form.description,
   report_group |-> form.reportGroup, consequences |-> form.consequences,
   likelihood |-> form.likelihood, status |-> status,
   subject |-> form.subject, corrective_action |-> Len(actionPlans) > 0,
   supporting_image |-> IF path = EmptyPath THEN NoImage ELSE path,
   created_by |-> uid]

\* selectedCategories.map(categoryId => ({observation_id, category_id}))
CategoryRows(report) ==
  { [observation_id |-> report.id, category_id |-> selectedCategories[i]] :
      i \in 1..Len(selectedCategories) }

\* The Action Plan rows with another Observation's id in observation_id.
ActionPlanRows_OtherId(report, uid) ==
  { [id |-> nextPlanId + i - 1, observation_id |-> OldObservation.id,
     action |-> actionPlans[i].action, due_date |-> actionPlans[i].dueDate,
     responsible_person |-> actionPlans[i].responsiblePerson,
     follow_up_contact |-> actionPlans[i].followUpContact,
     status |-> actionPlans[i].status, supporting_image |-> NoImage,
     created_by |-> uid] : i \in 1..Len(actionPlans) }

\* actionPlans.map(plan => ({observation_id: savedReport.id, ...})); the
\* store numbers the rows of the one insert from nextPlanId on.
ActionPlanRows(report, uid) ==
  { [id |-> nextPlanId + i - 1, observation_id |-> report.id,
     action |-> actionPlans[i].action, due_date |-> actionPlans[i].dueDate,
     responsible_person |-> actionPlans[i].responsiblePerson,
     follow_up_contact |-> actionPlans[i].followUpContact,
     status |-> actionPlans[i].status, supporting_image |-> NoImage,
     created_by |-> uid] : i \in 1..Len(actionPlans) }

\* `${Date.now()}-${imageFile.name}`
UploadKey(t, file) == <<t, file>>

\* What follows the saved categories: the Action Plans, if any, then the
\* end of the try block.
AfterCategories(report) ==
  IF Len(actionPlans) > 0 THEN Continue("insertActionPlans")
  ELSE Finish(report)

\* What follows the saved Observation.
AfterObservation(report) ==
  IF Len(selectedCategories) > 0 THEN Continue("insertCategories")
  ELSE AfterCategories(report)

\* Submit clicked (the button is disabled while loading): validateForm,
\* and with no violation the handler runs up to auth.getUser().
handleSubmit ==
  /\ Mounted
  /\ pc = "idle"
  /\ ~loading
  /\ submits < MaxSubmits
  /\ submits' = submits + 1
  /\ validationErrors' = validateForm
  /\ reqs' = <<>>
  /\ user' = Null
  /\ imagePath' = EmptyPath
  /\ savedReport' = None
  /\ IF validateForm # {}
     THEN /\ toast' = "Please fill in all required fields"
          /\ UNCHANGED <<loading, error, pc>>
     ELSE /\ loading' = TRUE
          /\ error' = Null
          /\ pc' = "getUser"
          /\ UNCHANGED toast
  /\ UNCHANGED navigatedTo
  /\ UNCHANGED <<storeVars, formVars>>
  /\ UNCHANGED notCreateVars

\* await supabase.auth.getUser()
GetUser(u) ==
  /\ pc = "getUser"
  /\ reqs' = Append(reqs, Request("getUser", "auth", u # Null, {}))
  /\ IF u = Null
     THEN /\ Fail("User not authenticated")
          /\ UNCHANGED <<user, imagePath>>
     ELSE /\ user' = u
          /\ imagePath' = EmptyPath
          /\ Continue(IF imageFile # NoFile THEN "upload"
                      ELSE "insertObservation")
  /\ UNCHANGED savedReport
  /\ UNCHANGED <<storeVars, formVars>>
  /\ UNCHANGED notCreateVars

\* The upload with imageError ignored.
UploadImage_Unchecked(ok) ==
  /\ pc = "upload"
  /\ LET key == UploadKey(now, imageFile)
         done == ok /\ key \notin storage["safety-images"]
     IN /\ reqs' = Append(reqs, Request("upload", "safety-images", done, {}))
        /\ storage' = IF done
                      THEN [storage EXCEPT !["safety-images"] = @ \cup {key}]
                      ELSE storage
        /\ imagePath' = IF done THEN key ELSE EmptyPath
        /\ Continue("insertObservation")
  /\ UNCHANGED <<user, savedReport>>
  /\ UNCHANGED <<observation_details, observation_categories, action_plans,
                 nextObsId, nextPlanId, now>>
  /\ UNCHANGED formVars
  /\ UNCHANGED notCreateVars

\* await supabase.storage.from('safety-images').upload(key, imageFile);
\* the bucket refuses a key it already holds.
UploadImage(ok) ==
  /\ pc = "upload"
  /\ LET key == UploadKey(now, imageFile)
         done == ok /\ key \notin storage["safety-images"]
     IN /\ reqs' = Append(reqs, Request("upload", "safety-images", done, {}))
        /\ IF done
           THEN /\ storage' = [storage EXCEPT !["safety-images"] = @ \cup {key}]
                /\ imagePath' = key
                /\ Continue("insertObservation")
           ELSE /\ Fail("storage error")
                /\ UNCHANGED <<storage, imagePath>>
  /\ UNCHANGED <<user, savedReport>>
  /\ UNCHANGED <<observation_details, observation_categories, action_plans,
                 nextObsId, nextPlanId, now>>
  /\ UNCHANGED formVars
  /\ UNCHANGED notCreateVars

\* The insert with observationError ignored: the handler goes on with the
\* row it sent.
InsertObservation_Unchecked(outcome) ==
  /\ pc = "insertObservation"
  /\ LET row == ObservationRow(nextObsId, user, imagePath)
     IN /\ reqs' = Append(reqs, Request("insert", "observation_details",
                                        outcome = "ok", {}))
        /\ observation_details' =
             IF outcome = "ok" THEN observation_details \cup {row}
             ELSE observation_details
        /\ nextObsId' = IF outcome = "ok" THEN nextObsId + 1 ELSE nextObsId
        /\ savedReport' = <<row>>
        /\ AfterObservation(row)
  /\ UNCHANGED <<user, imagePath>>
  /\ UNCHANGED <<observation_categories, action_plans, storage, nextPlanId,
                 now>>
  /\ UNCHANGED formVars
  /\ UNCHANGED notCreateVars

\* await supabase.from('observation_details').insert({...}).select().single()
\* outcome: "ok" (the row, with its id), "error", or "norow" (no error and
\* no row returned).
InsertObservation(outcome) ==
  /\ pc = "insertObservation"
  /\ LET row == ObservationRow(nextObsId, user, imagePath)
     IN /\ reqs' = Append(reqs, Request("insert", "observation_details",
                                        outcome = "ok", {}))
        /\ IF outcome = "ok"
           THEN /\ observation_details' = observation_details \cup {row}
                /\ nextObsId' = nextObsId + 1
                /\ savedReport' = <<row>>
                /\ AfterObservation(row)
           ELSE /\ Fail(IF outcome = "error"
                        THEN "Failed to save observation"
                        ELSE "No report data returned after save")
                /\ UNCHANGED <<observation_details, nextObsId, savedReport>>
  /\ UNCHANGED <<user, imagePath>>
  /\ UNCHANGED <<observation_categories, action_plans, storage, nextPlanId,
                 now>>
  /\ UNCHANGED formVars
  /\ UNCHANGED notCreateVars

\* The category insert with a compensating delete of the Observation when
\* it fails.
InsertCategories_Rollback(ok) ==
  /\ pc = "insertCategories"
  /\ LET rows == CategoryRows(savedReport[1])
     IN /\ IF ok
           THEN /\ reqs' = Append(reqs, Request("insert",
                                 "observation_categories", ok,
                                 {r.observation_id : r \in rows}))
                /\ observation_categories' = observation_categories \cup rows
                /\ AfterCategories(savedReport[1])
                /\ UNCHANGED observation_details
           ELSE /\ reqs' = reqs \o
                     << Request("insert", "observation_categories", ok,
                                {r.observation_id : r \in rows}),
                        Request("delete", "observation_details", TRUE, {}) >>
                /\ observation_details' =
                     observation_details \ {savedReport[1]}
                /\ Fail("Failed to save categories")
                /\ UNCHANGED observation_categories
  /\ UNCHANGED <<user, imagePath, savedReport>>
  /\ UNCHANGED <<action_plans, storage, nextObsId, nextPlanId, now>>
  /\ UNCHANGED formVars
  /\ UNCHANGED notCreateVars

\* await supabase.from('observation_categories').insert([...])
InsertCategories(ok) ==
  /\ pc = "insertCategories"
  /\ LET rows == CategoryRows(savedReport[1])
     IN /\ reqs' = Append(reqs, Request("insert", "observation_categories", ok,
                                 {r.observation_id : r \in rows}))
        /\ IF ok
           THEN /\ observation_categories' = observation_categories \cup rows
                /\ AfterCategories(savedReport[1])
           ELSE /\ Fail("Failed to save categories")
                /\ UNCHANGED observation_categories
  /\ UNCHANGED <<user, imagePath, savedReport>>
  /\ UNCHANGED <<observation_details, action_plans, storage, nextObsId,
                 nextPlanId, now>>
  /\ UNCHANGED formVars
  /\ UNCHANGED notCreateVars

\* One insert per staged Action Plan, a failure stopping at the failed one:
\* the plans before it stay persisted.
InsertActionPlans_Each(ok) ==
  /\ pc = "insertActionPlans"
  /\ LET rows == ActionPlanRows(savedReport[1], user)
     IN /\ reqs' = Append(reqs, Request("insert", "action_plans", ok,
                                 {r.observation_id : r \in rows}))
        /\ IF ok
           THEN /\ action_plans' = action_plans \cup rows
                /\ nextPlanId' = nextPlanId + Len(actionPlans)
                /\ Finish(savedReport[1])
           ELSE /\ action_plans' =
                     action_plans \cup {r \in rows : r.id = nextPlanId}
                /\ nextPlanId' = nextPlanId + 1
                /\ Fail("Failed to save action plans")
  /\ UNCHANGED <<user, imagePath, savedReport>>
  /\ UNCHANGED <<observation_details, observation_categories, storage,
                 nextObsId, now>>
  /\ UNCHANGED formVars
  /\ UNCHANGED notCreateVars

\* await supabase.from('action_plans').insert([...]): one request carrying
\* every staged Action Plan.
InsertActionPlans(ok) ==
  /\ pc = "insertActionPlans"
  /\ LET rows == ActionPlanRows(savedReport[1], user)
     IN /\ reqs' = Append(reqs, Request("insert", "action_plans", ok,
                                 {r.observation_id : r \in rows}))
        /\ IF ok
           THEN /\ action_plans' = action_plans \cup rows
                /\ nextPlanId' = nextPlanId + Len(actionPlans)
                /\ Finish(savedReport[1])
           ELSE /\ Fail("Failed to save action plans")
                /\ UNCHANGED <<action_plans, nextPlanId>>
  /\ UNCHANGED <<user, imagePath, savedReport>>
  /\ UNCHANGED <<observation_details, observation_categories, storage,
                 nextObsId, now>>
  /\ UNCHANGED formVars
  /\ UNCHANGED notCreateVars

\* ======================================================= ReportView
EditSubjects == {"SOSV : Safety Observation Site Visit", "SOP", "RES"}
EditReportGroups == {"finding", "positive"}
ConsequenceLevels == {"minor", "moderate", "major", "severe"}
LikelihoodLevels == {"unlikely", "possible", "likely", "very-likely"}

\* One character of sanitizeFilename: accents and control characters are
\* removed, a character outside a-zA-Z0-9._- becomes '_'.
SanitizeChar(c) ==
  CASE c = "e'" -> <<"e">>
    [] c = "\\n" -> <<>>
    [] c \in {"a", "e", "p", "n", "g", "1", ".", "_", "-"} -> <<c>>
    [] OTHER -> <<"_">>

RECURSIVE sanitizeFilename(_)
sanitizeFilename(filename) ==
  IF filename = <<>> THEN <<>>
  ELSE SanitizeChar(Head(filename)) \o sanitizeFilename(Tail(filename))

\* The rows of a table answer, in id order.
RECURSIVE RowsById(_)
RowsById(S) ==
  IF S = {} THEN <<>>
  ELSE LET first == CHOOSE r \in S : \A q \in S : r.id <= q.id
       IN <<first>> \o RowsById(S \ {first})

\* The form state loadReport sets from the Observation row.
FormOfRow(row) ==
  [project |-> row.project_id, company |-> row.company_id,
   submitterName |-> row.submitter_name, date |-> row.date,
   time |-> row.time, department |-> row.department,
   location |-> row.location, description |-> row.description,
   reportGroup |-> row.report_group, consequences |-> row.consequences,
   likelihood |-> row.likelihood, subject |-> row.subject]

\* The useState initial values of what loadReport and the inputs set.
ViewUnloaded ==
  /\ rv_loading = TRUE
  /\ rv_error = ""
  /\ rv_report = None
  /\ rv_form = [f \in FormFields |-> ""]
  /\ rv_status = "open"
  /\ rv_selectedCategories = <<>>
  /\ rv_actionPlans = <<>>
  /\ rv_actionPlanRequired = "no"
  /\ rv_imageFile = NoFile

\* No row in edit mode, no handler running.
ViewIdle ==
  /\ rv_id = 1
  /\ editingActionPlanIndex = 0
  /\ editedActionPlan = None
  /\ editedActionPlanImageFile = NoFile
  /\ saving = FALSE
  /\ rv_toast = Null
  /\ rv_navigatedTo = NoRoute
  /\ rv_pc = "idle"
  /\ rv_submits = 0
  /\ rv_imagePath = EmptyPath
  /\ rv_reqs = <<>>
  /\ se_pc = "idle"
  /\ se_closure = None
  /\ se_imagePath = EmptyPath
  /\ se_saves = 0
  /\ del_closure = None

ViewInit == ViewUnloaded /\ ViewIdle

\* The view is displayed until handleSubmit navigates away.
RV_Mounted == rv_navigatedTo = NoRoute

\* The form is rendered: not loading, no error, a report loaded.
RV_Rendered ==
  RV_Mounted /\ ~rv_loading /\ rv_error = "" /\ rv_report # None

\* loadReport: the Observation row, its Action Plans and its category
\* links are read; any error, or no row with the id, ends in the error
\* state.
loadReport(ok) ==
  /\ RV_Mounted
  /\ rv_loading
  /\ LET rows == {o \in observation_details : o.id = rv_id}
         plans == RowsById({p \in action_plans : p.observation_id = rv_id})
         links == {l \in observation_categories : l.observation_id = rv_id}
     IN IF ok /\ rows # {}
        THEN LET row == CHOOSE o \in rows : TRUE
             IN /\ rv_report' = <<row>>
                /\ rv_selectedCategories' =
                     SelectSeq(CategorySeq,
                       LAMBDA c : c \in {l.category_id : l \in links})
                /\ rv_actionPlans' = plans
                /\ rv_actionPlanRequired' =
                     IF Len(plans) > 0 THEN "yes" ELSE "no"
                /\ rv_form' = FormOfRow(row)
                /\ rv_status' = row.status
                /\ UNCHANGED rv_error
        ELSE /\ rv_error' = "Failed to load report"
             /\ UNCHANGED <<rv_report, rv_selectedCategories, rv_actionPlans,
                            rv_actionPlanRequired, rv_form, rv_status>>
  /\ rv_loading' = FALSE
  /\ UNCHANGED <<rv_id, rv_imageFile, editingActionPlanIndex,
                 editedActionPlan, editedActionPlanImageFile, saving,
                 rv_toast, rv_navigatedTo>>
  /\ UNCHANGED <<storeVars, updateVars, saveEditedVars, notViewVars>>

\* The inputs of the edit form that ReportView.handleSubmit reads; a
\* running handleSubmit reads the state of the render it was started from,
\* so these setters are taken while no handleSubmit is running.
RV_Editable == RV_Rendered /\ rv_pc = "idle"

RV_setSubject(v) ==
  /\ RV_Editable
  /\ rv_form' = [rv_form EXCEPT !.subject = v]
  /\ UNCHANGED <<rv_id, rv_loading, rv_error, rv_report, rv_status,
                 rv_selectedCategories, rv_actionPlans,
                 rv_actionPlanRequired, rv_imageFile,
                 editingActionPlanIndex, editedActionPlan,
                 editedActionPlanImageFile, saving, rv_toast,
                 rv_navigatedTo>>
  /\ UNCHANGED <<storeVars, updateVars, saveEditedVars, notViewVars>>

RV_setReportGroup(v) ==
  /\ RV_Editable
  /\ rv_form' = [rv_form EXCEPT !.reportGroup = v]
  /\ UNCHANGED <<rv_id, rv_loading, rv_error, rv_report, rv_status,
                 rv_selectedCategories, rv_actionPlans,
                 rv_actionPlanRequired, rv_imageFile,
                 editingActionPlanIndex, editedActionPlan,
                 editedActionPlanImageFile, saving, rv_toast,
                 rv_navigatedTo>>
  /\ UNCHANGED <<storeVars, updateVars, saveEditedVars, notViewVars>>

RV_setStatus(v) ==
  /\ RV_Editable
  /\ rv_status' = v
  /\ UNCHANGED <<rv_id, rv_loading, rv_error, rv_report, rv_form,
                 rv_selectedCategories, rv_actionPlans,
                 rv_actionPlanRequired, rv_imageFile,
                 editingActionPlanIndex, editedActionPlan,
                 editedActionPlanImageFile, saving, rv_toast,
                 rv_navigatedTo>>
  /\ UNCHANGED <<storeVars, updateVars, saveEditedVars, notViewVars>>

RV_handleCategorySelect(categoryId) ==
  /\ RV_Editable
  /\ rv_selectedCategories' =
       IF Contains(rv_selectedCategories, categoryId)
       THEN Without(rv_selectedCategories, categoryId)
       ELSE Append(rv_selectedCategories, categoryId)
  /\ UNCHANGED <<rv_id, rv_loading, rv_error, rv_report, rv_form, rv_status,
                 rv_actionPlans, rv_actionPlanRequired, rv_imageFile,
                 editingActionPlanIndex, editedActionPlan,
                 editedActionPlanImageFile, saving, rv_toast,
                 rv_navigatedTo>>
  /\ UNCHANGED <<storeVars, updateVars, saveEditedVars, notViewVars>>

RV_handleImageChange(file) ==
  /\ RV_Editable
  /\ rv_imageFile' = IF file # NoFile THEN file ELSE rv_imageFile
  /\ UNCHANGED <<rv_id, rv_loading, rv_error, rv_report, rv_form, rv_status,
                 rv_selectedCategories, rv_actionPlans,
                 rv_actionPlanRequired, editingActionPlanIndex,
                 editedActionPlan, editedActionPlanImageFile, saving,
                 rv_toast, rv_navigatedTo>>
  /\ UNCHANGED <<storeVars, updateVars, saveEditedVars, notViewVars>>

\* ---------------------------------------------- ReportView.handleSubmit
\* The toast of the first failed check of the form, or Null.
ValidationErrorOf(f) ==
  IF \E field \in RequiredFields : f[field] = ""
  THEN "Please fill in all required fields"
  ELSE IF f.subject \notin EditSubjects
  THEN "Invalid subject value"
  ELSE IF f.reportGroup \notin EditReportGroups
  THEN "Invalid report group value"
  ELSE IF f.consequences \notin ConsequenceLevels
  THEN "Invalid consequences value"
  ELSE IF f.likelihood \notin LikelihoodLevels
  THEN "Invalid likelihood value"
  ELSE Null

RV_ValidationError == ValidationErrorOf(rv_form)

\* A return or a throw inside the try block: the toast, then finally.
RV_End(msg) ==
  /\ rv_toast' = msg
  /\ saving' = FALSE
  /\ rv_pc' = "idle"
  /\ rv_imagePath' = EmptyPath
  /\ UNCHANGED rv_navigatedTo

\* The end of the try block: success toast, navigate('/'), then finally.
RV_Finish ==
  /\ rv_toast' = "Report updated successfully"
  /\ rv_navigatedTo' = <<"/">>
  /\ saving' = FALSE
  /\ rv_pc' = "idle"
  /\ rv_imagePath' = EmptyPath

RV_ContinueWith(next, path) ==
  /\ rv_pc' = next
  /\ rv_imagePath' = path
  /\ UNCHANGED <<saving, rv_toast, rv_navigatedTo>>

RV_Continue(next) == RV_ContinueWith(next, rv_imagePath)

\* What follows the cascade: the category links, if any is selected.
RV_AfterCascade ==
  IF Len(rv_selectedCategories) > 0 THEN RV_Continue("deleteCategories")
  ELSE RV_Finish

\* What follows the update of the Observation row.
RV_AfterUpdate ==
  IF rv_status = "closed" THEN RV_Continue("closeActionPlans")
  ELSE RV_AfterCascade

\* The Observation row after update({...}).eq('id', id).
UpdatedObservation(row, path) ==
  [row EXCEPT !.project_id = rv_form.project,
              !.company_id = rv_form.company,
              !.submitter_name = rv_form.submitterName,
              !.date = rv_form.date, !.time = rv_form.time,
              !.department = rv_form.department,
              !.location = rv_form.location,
              !.description = rv_form.description,
              !.report_group = rv_form.reportGroup,
              !.consequences = rv_form.consequences,
              !.likelihood = rv_form.likelihood,
              !.status = rv_status, !.subject = rv_form.subject,
              !.supporting_image = path]

\* update({ status: 'closed' }).eq('observation_id', id) on action_plans
ClosedPlans(plans, id) ==
  { IF p.observation_id = id THEN [p EXCEPT !.status = "closed"] ELSE p :
      p \in plans }

\* prevPlans.map(plan => ({...plan, status: 'closed'}))
ClosedList(list) == [i \in 1..Len(list) |-> [list[i] EXCEPT !.status = "closed"]]

\* selectedCategories.map(categoryId => ({observation_id: id, category_id}))
RV_CategoryRows ==
  { [observation_id |-> rv_id, category_id |-> rv_selectedCategories[i]] :
      i \in 1..Len(rv_selectedCategories) }

viewFrame ==
  UNCHANGED <<rv_id, rv_loading, rv_error, rv_report, rv_form, rv_status,
              rv_selectedCategories, rv_actionPlanRequired, rv_imageFile,
              editingActionPlanIndex, editedActionPlan,
              editedActionPlanImageFile>>

\* handleSubmit is entered: it runs up to auth.getUser().
RV_Submitted ==
  /\ rv_submits < MaxUpdates
  /\ rv_submits' = rv_submits + 1
  /\ saving' = TRUE
  /\ rv_pc' = "getUser"
  /\ rv_reqs' = <<>>
  /\ rv_imagePath' = EmptyPath
  /\ UNCHANGED <<rv_toast, rv_navigatedTo>>

RV_NotSubmitted ==
  UNCHANGED <<saving, rv_pc, rv_reqs, rv_submits, rv_imagePath, rv_toast,
              rv_navigatedTo>>

\* Save clicked (the button is disabled while saving).
RV_handleSubmit ==
  /\ RV_Rendered
  /\ rv_pc = "idle"
  /\ ~saving
  /\ RV_Submitted
  /\ UNCHANGED rv_actionPlans
  /\ viewFrame
  /\ UNCHANGED <<storeVars, saveEditedVars, notViewVars>>

\* await supabase.auth.getUser(), then the checks of the form.
RV_GetUser(u) ==
  /\ rv_pc = "getUser"
  /\ rv_reqs' = Append(rv_reqs, Request("getUser", "auth", u # Null, {}))
  /\ IF u = Null
     THEN RV_End("Failed to update report")
     ELSE IF RV_ValidationError # Null
     THEN RV_End(RV_ValidationError)
     ELSE RV_ContinueWith(
            IF rv_imageFile # NoFile THEN "upload" ELSE "updateObservation",
            IF rv_report[1].supporting_image = NoImage THEN EmptyPath
            ELSE rv_report[1].supporting_image)
  /\ UNCHANGED <<rv_submits, rv_actionPlans>>
  /\ viewFrame
  /\ UNCHANGED <<storeVars, saveEditedVars, notViewVars>>

\* await supabase.storage.from('safety-images').upload(fileName, imageFile)
RV_UploadImage(ok) ==
  /\ rv_pc = "upload"
  /\ LET key == UploadKey(now, sanitizeFilename(rv_imageFile))
         done == ok /\ key \notin storage["safety-images"]
     IN /\ rv_reqs' = Append(rv_reqs,
                             Request("upload", "safety-images", done, {}))
        /\ IF done
           THEN /\ storage' = [storage EXCEPT !["safety-images"] = @ \cup {key}]
                /\ RV_ContinueWith("updateObservation", key)
           ELSE /\ RV_End("Failed to update report")
                /\ UNCHANGED storage
  /\ UNCHANGED <<rv_submits, rv_actionPlans>>
  /\ viewFrame
  /\ UNCHANGED <<observation_details, observation_categories, action_plans,
                 nextObsId, nextPlanId, now>>
  /\ UNCHANGED <<saveEditedVars, notViewVars>>

\* await supabase.from('observation_details').update({...}).eq('id', id)
RV_UpdateObservation(ok) ==
  /\ rv_pc = "updateObservation"
  /\ rv_reqs' = Append(rv_reqs,
                       Request("update", "observation_details", ok, {rv_id}))
  /\ IF ok
     THEN /\ observation_details' =
               { IF o.id = rv_id THEN UpdatedObservation(o, rv_imagePath)
                 ELSE o : o \in observation_details }
          /\ RV_AfterUpdate
     ELSE /\ RV_End("Failed to update report")
          /\ UNCHANGED observation_details
  /\ UNCHANGED <<rv_submits, rv_actionPlans>>
  /\ viewFrame
  /\ UNCHANGED <<observation_categories, action_plans, storage, nextObsId,
                 nextPlanId, now>>
  /\ UNCHANGED <<saveEditedVars, notViewVars>>

\* The report is being closed:
\* await supabase.from('action_plans').update({status: 'closed'})
\*   .eq('observation_id', id), then the local list is closed too.
RV_CloseActionPlans(ok) ==
  /\ rv_pc = "closeActionPlans"
  /\ rv_reqs' = Append(rv_reqs, Request("update", "action_plans", ok, {rv_id}))
  /\ IF ok
     THEN /\ action_plans' = ClosedPlans(action_plans, rv_id)
          /\ rv_actionPlans' = ClosedList(rv_actionPlans)
          /\ RV_AfterCascade
     ELSE /\ RV_End("Failed to update report")
          /\ UNCHANGED <<action_plans, rv_actionPlans>>
  /\ UNCHANGED rv_submits
  /\ viewFrame
  /\ UNCHANGED <<observation_details, observation_categories, storage,
                 nextObsId, nextPlanId, now>>
  /\ UNCHANGED <<saveEditedVars, notViewVars>>

\* await supabase.from('observation_categories').delete()
\*   .eq('observation_id', id)
RV_DeleteCategories(ok) ==
  /\ rv_pc = "deleteCategories"
  /\ rv_reqs' = Append(rv_reqs,
                       Request("delete", "observation_categories", ok, {rv_id}))
  /\ IF ok
     THEN /\ observation_categories' =
               {l \in observation_categories : l.observation_id # rv_id}
          /\ RV_Continue("insertCategories")
     ELSE /\ RV_End("Failed to update report")
          /\ UNCHANGED observation_categories
  /\ UNCHANGED <<rv_submits, rv_actionPlans>>
  /\ viewFrame
  /\ UNCHANGED <<observation_details, action_plans, storage, nextObsId,
                 nextPlanId, now>>
  /\ UNCHANGED <<saveEditedVars, notViewVars>>

\* await supabase.from('observation_categories').insert([...])
RV_InsertCategories(ok) ==
  /\ rv_pc = "insertCategories"
  /\ rv_reqs' = Append(rv_reqs,
                       Request("insert", "observation_categories", ok, {rv_id}))
  /\ IF ok
     THEN /\ observation_categories' =
               observation_categories \cup RV_CategoryRows
          /\ RV_Finish
     ELSE /\ RV_End("Failed to update report")
          /\ UNCHANGED observation_categories
  /\ UNCHANGED <<rv_submits, rv_actionPlans>>
  /\ viewFrame
  /\ UNCHANGED <<observation_details, action_plans, storage, nextObsId,
                 nextPlanId, now>>
  /\ UNCHANGED <<saveEditedVars, notViewVars>>

\* ------------------------------------------- ReportView: editing a plan
\* The list of saved Action Plans is rendered inside the form.
PlansRendered == RV_Rendered /\ rv_actionPlanRequired = "yes"

\* A row of the list is in edit mode (index 0 stands for null).
EditingRow ==
  /\ PlansRendered
  /\ editingActionPlanIndex \in 1..Len(rv_actionPlans)
  /\ editedActionPlan # None

RV_setActionPlanRequired(v) ==
  /\ RV_Rendered
  /\ rv_actionPlanRequired' = v
  /\ UNCHANGED <<rv_id, rv_loading, rv_error, rv_report, rv_form, rv_status,
                 rv_selectedCategories, rv_actionPlans, rv_imageFile,
                 editingActionPlanIndex, editedActionPlan,
                 editedActionPlanImageFile, saving, rv_toast,
                 rv_navigatedTo>>
  /\ UNCHANGED <<storeVars, updateVars, saveEditedVars, notViewVars>>

\* An Edit button that moves edit mode and keeps the edits in progress.
handleEditActionPlan_KeepEdits(index, alsoSubmit) ==
  /\ PlansRendered
  /\ index \in 1..Len(rv_actionPlans)
  /\ index # editingActionPlanIndex
  /\ editingActionPlanIndex' = index
  /\ editedActionPlan' = IF editedActionPlan # None THEN editedActionPlan
                         ELSE <<rv_actionPlans[index]>>
  /\ editedActionPlanImageFile' = editedActionPlanImageFile
  /\ IF alsoSubmit THEN rv_pc = "idle" /\ RV_Submitted ELSE RV_NotSubmitted
  /\ UNCHANGED <<rv_id, rv_loading, rv_error, rv_report, rv_form, rv_status,
                 rv_selectedCategories, rv_actionPlans,
                 rv_actionPlanRequired, rv_imageFile>>
  /\ UNCHANGED <<storeVars, saveEditedVars, notViewVars>>

\* The Edit button of a row.  It has no type attribute and sits inside the
\* form: when the browser still finds it in the form after the handler, the
\* click submits the form as well (alsoSubmit), otherwise it does not.
handleEditActionPlan(index, alsoSubmit) ==
  /\ PlansRendered
  /\ index \in 1..Len(rv_actionPlans)
  /\ index # editingActionPlanIndex
  /\ editingActionPlanIndex' = index
  /\ editedActionPlan' = <<rv_actionPlans[index]>>
  /\ editedActionPlanImageFile' = NoFile
  /\ IF alsoSubmit THEN rv_pc = "idle" /\ RV_Submitted ELSE RV_NotSubmitted
  /\ UNCHANGED <<rv_id, rv_loading, rv_error, rv_report, rv_form, rv_status,
                 rv_selectedCategories, rv_actionPlans,
                 rv_actionPlanRequired, rv_imageFile>>
  /\ UNCHANGED <<storeVars, saveEditedVars, notViewVars>>

\* The Cancel button of the row in edit mode (no type attribute either).
handleCancelEditActionPlan(alsoSubmit) ==
  /\ EditingRow
  /\ editingActionPlanIndex' = 0
  /\ editedActionPlan' = None
  /\ IF alsoSubmit THEN rv_pc = "idle" /\ RV_Submitted ELSE RV_NotSubmitted
  /\ UNCHANGED <<rv_id, rv_loading, rv_error, rv_report, rv_form, rv_status,
                 rv_selectedCategories, rv_actionPlans,
                 rv_actionPlanRequired, rv_imageFile,
                 editedActionPlanImageFile>>
  /\ UNCHANGED <<storeVars, saveEditedVars, notViewVars>>

\* onChange of the action input of the row in edit mode.
setEditedActionPlan(action) ==
  /\ EditingRow
  /\ editedActionPlan' = <<[editedActionPlan[1] EXCEPT !.action = action]>>
  /\ UNCHANGED <<rv_id, rv_loading, rv_error, rv_report, rv_form, rv_status,
                 rv_selectedCategories, rv_actionPlans,
                 rv_actionPlanRequired, rv_imageFile,
                 editingActionPlanIndex, editedActionPlanImageFile, saving,
                 rv_toast, rv_navigatedTo>>
  /\ UNCHANGED <<storeVars, updateVars, saveEditedVars, notViewVars>>

handleEditedActionPlanImageChange(file) ==
  /\ EditingRow
  /\ editedActionPlanImageFile' =
       IF file # NoFile THEN file ELSE editedActionPlanImageFile
  /\ UNCHANGED <<rv_id, rv_loading, rv_error, rv_report, rv_form, rv_status,
                 rv_selectedCategories, rv_actionPlans,
                 rv_actionPlanRequired, rv_imageFile,
                 editingActionPlanIndex, editedActionPlan, saving,
                 rv_toast, rv_navigatedTo>>
  /\ UNCHANGED <<storeVars, updateVars, saveEditedVars, notViewVars>>

\* ---------------------------------- ReportView.handleDeleteActionPlan
\* The list without its entry at index: actionPlans.filter((_, i) => i !==
\* index).
FilterIndex(list, index) ==
  [i \in 1..(Len(list) - 1) |-> IF i < index THEN list[i] ELSE list[i + 1]]

\* The Delete button of a row that is not in edit mode (type="button", so
\* the form is not submitted), with the confirm dialog accepted: the handler
\* runs up to the delete request with the list of this render.  Every plan
\* of the list has a stored id, so the request is always sent.
handleDeleteActionPlan(index) ==
  /\ PlansRendered
  /\ index \in 1..Len(rv_actionPlans)
  /\ index # editingActionPlanIndex
  /\ del_closure = None
  /\ del_closure' = <<[index |-> index, list |-> rv_actionPlans]>>
  /\ UNCHANGED <<se_pc, se_closure, se_imagePath, se_saves>>
  /\ UNCHANGED <<storeVars, viewVars, updateVars, notViewVars>>

\* await supabase.from('action_plans').delete().eq('id', planToDelete.id),
\* then the local list is replaced by the list of the click's render
\* without the entry at the click's index.
DeleteActionPlanDone(ok) ==
  /\ del_closure # None
  /\ del_closure' = None
  /\ LET c == del_closure[1]
     IN IF ok
        THEN /\ action_plans' =
                  {p \in action_plans : p.id # c.list[c.index].id}
             /\ rv_actionPlans' = IF RV_Mounted
                                  THEN FilterIndex(c.list, c.index)
                                  ELSE rv_actionPlans
             /\ rv_toast' = "Action plan deleted successfully"
        ELSE /\ rv_toast' = "Failed to delete action plan"
             /\ UNCHANGED <<action_plans, rv_actionPlans>>
  /\ UNCHANGED <<rv_id, rv_loading, rv_error, rv_report, rv_form, rv_status,
                 rv_selectedCategories, rv_actionPlanRequired, rv_imageFile,
                 editingActionPlanIndex, editedActionPlan,
                 editedActionPlanImageFile, saving, rv_navigatedTo>>
  /\ UNCHANGED <<se_pc, se_closure, se_imagePath, se_saves>>
  /\ UNCHANGED <<observation_details, observation_categories, storage,
                 nextObsId, nextPlanId, now>>
  /\ UNCHANGED <<updateVars, notViewVars>>

\* ------------------------------ ReportView.handleSaveEditedActionPlan
seFrame ==
  UNCHANGED <<rv_id, rv_loading, rv_error, rv_report, rv_form, rv_status,
              rv_selectedCategories, rv_actionPlanRequired, rv_imageFile,
              del_closure>>

\* A throw inside the try block.
SE_Fail ==
  /\ rv_toast' = "Failed to update action plan"
  /\ se_pc' = "idle"
  /\ se_closure' = None
  /\ se_imagePath' = EmptyPath
  /\ UNCHANGED <<rv_actionPlans, editingActionPlanIndex, editedActionPlan,
                 editedActionPlanImageFile>>

\* The Save Changes button of the row in edit mode: the handler runs up to
\* auth.getUser() with the state of this render; the button has no type
\* attribute and stays in the form, so the click submits the form too.
handleSaveEditedActionPlan ==
  /\ EditingRow
  /\ se_pc = "idle"
  /\ rv_pc = "idle"
  /\ se_closure' = <<[index |-> editingActionPlanIndex,
                      plan |-> editedActionPlan[1],
                      list |-> rv_actionPlans,
                      file |-> editedActionPlanImageFile]>>
  /\ se_pc' = "getUser"
  /\ se_imagePath' = EmptyPath
  /\ se_saves < MaxSaves
  /\ se_saves' = se_saves + 1
  /\ RV_Submitted
  /\ UNCHANGED <<rv_actionPlans, editingActionPlanIndex, editedActionPlan,
                 editedActionPlanImageFile>>
  /\ seFrame
  /\ UNCHANGED <<storeVars, notViewVars>>

\* await supabase.auth.getUser()
SE_GetUser(u) ==
  /\ se_pc = "getUser"
  /\ IF u = Null
     THEN SE_Fail
     ELSE /\ se_imagePath' = se_closure[1].plan.supporting_image
          /\ UNCHANGED se_closure
          /\ se_pc' = IF se_closure[1].file # NoFile THEN "upload"
                      ELSE "update"
          /\ UNCHANGED <<rv_toast, rv_actionPlans, editingActionPlanIndex,
                         editedActionPlan, editedActionPlanImageFile>>
  /\ UNCHANGED <<se_saves, saving, rv_navigatedTo>>
  /\ seFrame
  /\ UNCHANGED <<storeVars, updateVars, notViewVars>>

\* await supabase.storage.from('action-plan-images').upload(fileName, file)
SE_UploadImage(ok) ==
  /\ se_pc = "upload"
  /\ LET key == UploadKey(now, sanitizeFilename(se_closure[1].file))
         done == ok /\ key \notin storage["action-plan-images"]
     IN IF done
        THEN /\ storage' =
                  [storage EXCEPT !["action-plan-images"] = @ \cup {key}]
             /\ se_imagePath' = key
             /\ se_pc' = "update"
             /\ UNCHANGED se_closure
             /\ UNCHANGED <<rv_toast, rv_actionPlans, editingActionPlanIndex,
                            editedActionPlan, editedActionPlanImageFile>>
        ELSE /\ SE_Fail
             /\ UNCHANGED storage
  /\ UNCHANGED <<se_saves, saving, rv_navigatedTo>>
  /\ seFrame
  /\ UNCHANGED <<observation_details, observation_categories, action_plans,
                 nextObsId, nextPlanId, now>>
  /\ UNCHANGED <<updateVars, notViewVars>>

\* The Action Plan row after update({...}).eq('id', editedActionPlan.id):
\* the status written is the one of the copy taken when Edit was clicked.
UpdatedPlan(row, plan, path) ==
  [row EXCEPT !.action = plan.action, !.due_date = plan.due_date,
              !.responsible_person = plan.responsible_person,
              !.follow_up_contact = plan.follow_up_contact,
              !.status = plan.status, !.supporting_image = path]

\* await supabase.from('action_plans').update({...}).eq('id', ...), then the
\* local list is replaced by the list of the click's render with the edited
\* row in it, and edit mode is left.
SE_UpdateActionPlan(ok) ==
  /\ se_pc = "update"
  /\ LET c == se_closure[1]
     IN IF ok
        THEN /\ action_plans' =
                  { IF p.id = c.plan.id
                    THEN UpdatedPlan(p, c.plan, se_imagePath) ELSE p :
                      p \in action_plans }
             /\ rv_toast' = "Action plan updated successfully"
             /\ se_pc' = "idle"
             /\ se_closure' = None
             /\ se_imagePath' = EmptyPath
             /\ IF RV_Mounted
                THEN /\ rv_actionPlans' =
                          [c.list EXCEPT ![c.index] =
                             UpdatedPlan(c.plan, c.plan, se_imagePath)]
                     /\ editingActionPlanIndex' = 0
                     /\ editedActionPlan' = None
                     /\ editedActionPlanImageFile' = NoFile
                ELSE UNCHANGED <<rv_actionPlans, editingActionPlanIndex,
                                 editedActionPlan, editedActionPlanImageFile>>
        ELSE /\ SE_Fail
             /\ UNCHANGED action_plans
  /\ UNCHANGED <<se_saves, saving, rv_navigatedTo>>
  /\ seFrame
  /\ UNCHANGED <<observation_details, observation_categories, storage,
                 nextObsId, nextPlanId, now>>
  /\ UNCHANGED <<updateVars, notViewVars>>

\* ------------------------------------------------- SafetyReportsTable
CACHE_TTL == 5 * 60 * 1000

reportsPerPage == 10

NoFilters == [start |-> "", end |-> "", status |-> "", severity |-> ""]

\* The order of the date strings the model uses.
DateOrd(d) ==
  CASE d = "2023-01-01" -> 1
    [] d = "2023-02-01" -> 2
    [] d = "2024-01-01" -> 3
    [] OTHER -> 0

\* The order of the status and consequences strings, as text.
TextOrd(t) ==
  CASE t = "closed" -> 1
    [] t = "open" -> 2
    [] t = "major" -> 1
    [] t = "minor" -> 2
    [] t = "moderate" -> 3
    [] t = "severe" -> 4
    [] OTHER -> 0

\* gte('date', start), lte('date', end), eq('status', ...),
\* eq('consequences', ...), each applied when its filter is set.
Matches(o, f) ==
  /\ f.start # "" => DateOrd(o.date) >= DateOrd(f.start)
  /\ f.end # "" => DateOrd(o.date) <= DateOrd(f.end)
  /\ f.status # "" => o.status = f.status
  /\ f.severity # "" => o.consequences = f.severity

\* The value a row is ordered by; the store stamps created_at at insert,
\* so created_at orders the rows as their ids do.
SortValue(o, key) ==
  CASE key = "created_at" -> o.id
    [] key = "date" -> DateOrd(o.date)
    [] key = "consequences" -> TextOrd(o.consequences)
    [] key = "status" -> TextOrd(o.status)
    [] OTHER -> o.id

\* r comes no later than q in the answer; rows with equal values of the
\* key come in id order.
ComesFirst(r, q, key, ascending) ==
  IF SortValue(r, key) = SortValue(q, key) THEN r.id <= q.id
  ELSE IF ascending THEN SortValue(r, key) < SortValue(q, key)
  ELSE SortValue(r, key) > SortValue(q, key)

\* order(key, {ascending})
RECURSIVE OrderBy(_, _, _)
OrderBy(S, key, ascending) ==
  IF S = {} THEN <<>>
  ELSE LET first ==
             CHOOSE r \in S : \A q \in S : ComesFirst(r, q, key, ascending)
       IN <<first>> \o OrderBy(S \ {first}, key, ascending)

\* The columns the query selects, with the joined Action Plans.
ReportRow(o) ==
  [id |-> o.id, subject |-> o.subject, submitter_name |-> o.submitter_name,
   date |-> o.date, description |-> o.description,
   consequences |-> o.consequences, status |-> o.status,
   action_plans |->
     {[id |-> p.id, action |-> p.action, due_date |-> p.due_date,
       responsible_person |-> p.responsible_person,
       follow_up_contact |-> p.follow_up_contact, status |-> p.status] :
        p \in {x \in action_plans : x.observation_id = o.id}}]

\* range(start, end) of the ordered, filtered rows
QueryResult(q) ==
  LET rows == OrderBy({o \in observation_details : Matches(o, q.filters)},
                      q.sortConfig.key, q.sortConfig.direction = "asc")
      start == (q.currentPage - 1) * reportsPerPage
      last == IF start + reportsPerPage < Len(rows)
              THEN start + reportsPerPage ELSE Len(rows)
  IN [i \in 1..(IF last > start THEN last - start ELSE 0) |->
        ReportRow(rows[start + i])]

\* Math.ceil(n / d)
CeilDiv(n, d) == (n + d - 1) \div d

\* The query of a render: its page, filters and sort.
Query ==
  [currentPage |-> currentPage, filters |-> filters,
   sortConfig |-> sortConfig]

\* The table as mounted: useEffect has called loadReports, which has set
\* loading and sent its query.
TableInit ==
  /\ reports = <<>>
  /\ tbl_loading = TRUE
  /\ tbl_error = ""
  /\ currentPage = 1
  /\ totalPages = 1
  /\ reportToDelete = None
  /\ filters = NoFilters
  /\ sortConfig = [key |-> "created_at", direction |-> "desc"]
  /\ tbl_toast = Null
  /\ lr_pending = {Query}
  /\ lr_answered = None
  /\ sortClicks = <<>>
  /\ exported = None
  /\ cd_pc = "idle"
  /\ cd_target = None
  /\ cd_reqs = <<>>
  /\ cd_confirms = 0

\* The answer to a loadReports query arrives: the rows are shown and the
\* page count is computed from count, which the query does not ask for and
\* the answer does not carry; or the error is set.
LoadReportsDone(q, ok) ==
  /\ q \in lr_pending
  /\ lr_pending' = lr_pending \ {q}
  /\ lr_answered' = <<[query |-> q, ok |-> ok]>>
  /\ IF ok
     THEN /\ reports' = QueryResult(q)
          /\ totalPages' = CeilDiv(0, reportsPerPage)
          /\ UNCHANGED tbl_error
     ELSE /\ tbl_error' = "Failed to load reports"
          /\ UNCHANGED <<reports, totalPages>>
  /\ tbl_loading' = FALSE
  /\ UNCHANGED <<currentPage, reportToDelete, filters, sortConfig, tbl_toast,
                 sortClicks, exported>>
  /\ UNCHANGED <<storeVars, confirmVars, notTableVars>>

\* A change of currentPage, filters or sortConfig re-runs the effect:
\* loadReports sets loading and sends the query of the new render.
Reloaded(page, f, sort) ==
  /\ Cardinality(lr_pending) < MaxPending
  /\ currentPage' = page
  /\ filters' = f
  /\ sortConfig' = sort
  /\ tbl_loading' = TRUE
  /\ lr_pending' =
       lr_pending \cup
         {[currentPage |-> page, filters |-> f, sortConfig |-> sort]}
  /\ UNCHANGED <<reports, tbl_error, totalPages, reportToDelete, tbl_toast,
                 lr_answered >>
  /\ UNCHANGED <<storeVars, confirmVars, notTableVars>>

\* The Previous button: disabled={currentPage === 1}
previousPage ==
  /\ reportToDelete = None
  /\ currentPage # 1
  /\ Reloaded(currentPage - 1, filters, sortConfig)
  /\ UNCHANGED <<sortClicks, exported>>

\* The Next button: disabled={currentPage === totalPages}
nextPage ==
  /\ reportToDelete = None
  /\ currentPage # totalPages
  /\ currentPage < MaxPage
  /\ Reloaded(currentPage + 1, filters, sortConfig)
  /\ UNCHANGED <<sortClicks, exported>>

\* A page-number button, one for each of 1..totalPages; the button of the
\* current page sets the same state, which re-runs nothing.
setCurrentPage(page) ==
  /\ reportToDelete = None
  /\ page \in 1..totalPages
  /\ IF page = currentPage THEN UNCHANGED vars
     ELSE Reloaded(page, filters, sortConfig) /\ UNCHANGED <<sortClicks, exported>>

SortableColumns == {"date", "consequences", "status"}

\* A handleSort that flips the direction whatever column is clicked.
handleSort_FlipAlways(key) ==
  /\ reportToDelete = None
  /\ Len(sortClicks) < MaxSortClicks
  /\ sortClicks' = Append(sortClicks, key)
  /\ UNCHANGED exported
  /\ Reloaded(currentPage, filters,
              [key |-> key,
               direction |->
                 IF sortConfig.direction = "asc" THEN "desc" ELSE "asc"])

\* handleSort(key): a click on the Date, Severity or Status header.
handleSort(key) ==
  /\ reportToDelete = None
  /\ Len(sortClicks) < MaxSortClicks
  /\ sortClicks' = Append(sortClicks, key)
  /\ UNCHANGED exported
  /\ Reloaded(currentPage, filters,
              [key |-> key,
               direction |->
                 IF sortConfig.key = key /\ sortConfig.direction = "asc"
                 THEN "desc" ELSE "asc"])

\* onChange of a filter input: setFilters({...filters, [field]: value})
setFilters(field, value) ==
  /\ reportToDelete = None
  /\ Reloaded(currentPage, [filters EXCEPT ![field] = value], sortConfig)
  /\ UNCHANGED <<sortClicks, exported>>

\* format(parseISO(date), 'PPP')
FormatPPP(date) ==
  CASE date = "2023-01-01" -> "January 1st, 2023"
    [] date = "2023-02-01" -> "February 1st, 2023"
    [] date = "2024-01-01" -> "January 1st, 2024"

\* The exported row of a report (the model's rows carry no project, company
\* or created_at).
ExportRow(report) ==
  [ReportID |-> report.id, Subject |-> report.subject,
   Submitter |-> report.submitter_name, Date |-> FormatPPP(report.date),
   Description |-> report.description, Severity |-> report.consequences,
   Status |-> report.status]

\* An export of every stored row that matches the filters.
exportToCSV_AllRows ==
  /\ reportToDelete = None
  /\ LET rows == OrderBy({o \in observation_details : Matches(o, filters)},
                         sortConfig.key, sortConfig.direction = "asc")
     IN exported' = <<[i \in 1..Len(rows) |-> ExportRow(ReportRow(rows[i]))]>>
  /\ UNCHANGED <<reports, tbl_loading, tbl_error, currentPage, totalPages,
                 reportToDelete, filters, sortConfig, tbl_toast, lr_pending,
                 lr_answered, sortClicks>>
  /\ UNCHANGED <<storeVars, confirmVars, notTableVars>>

\* exportToCSV: the Export CSV button.
exportToCSV ==
  /\ reportToDelete = None
  /\ exported' = <<[i \in 1..Len(reports) |-> ExportRow(reports[i])]>>
  /\ UNCHANGED <<reports, tbl_loading, tbl_error, currentPage, totalPages,
                 reportToDelete, filters, sortConfig, tbl_toast, lr_pending,
                 lr_answered, sortClicks>>
  /\ UNCHANGED <<storeVars, confirmVars, notTableVars>>

\* A Delete button that deletes at once, without the modal.
handleDelete_Immediate(report) ==
  /\ reportToDelete = None
  /\ cd_pc = "idle"
  /\ report \in Range(reports)
  /\ reportToDelete' = <<report>>
  /\ cd_target' = <<report>>
  /\ cd_reqs' = <<>>
  /\ cd_pc' = "deleteActionPlans"
  /\ UNCHANGED cd_confirms
  /\ UNCHANGED <<reports, tbl_loading, tbl_error, currentPage, totalPages,
                 filters, sortConfig, tbl_toast, lr_pending, lr_answered,
                 sortClicks, exported>>
  /\ UNCHANGED <<storeVars, notTableVars>>

\* The Delete button of a row; the modal, once shown, covers the table.
handleDelete(report) ==
  /\ reportToDelete = None
  /\ report \in Range(reports)
  /\ reportToDelete' = <<report>>
  /\ UNCHANGED <<reports, tbl_loading, tbl_error, currentPage, totalPages,
                 filters, sortConfig, tbl_toast, lr_pending, lr_answered,
                 sortClicks, exported>>
  /\ UNCHANGED <<storeVars, confirmVars, notTableVars>>

\* The Cancel button of the modal: onCancel={() => setReportToDelete(null)}
onCancel ==
  /\ reportToDelete # None
  /\ reportToDelete' = None
  /\ UNCHANGED <<reports, tbl_loading, tbl_error, currentPage, totalPages,
                 filters, sortConfig, tbl_toast, lr_pending, lr_answered,
                 sortClicks, exported>>
  /\ UNCHANGED <<storeVars, confirmVars, notTableVars>>

tableFrame ==
  UNCHANGED <<reports, tbl_error, currentPage, totalPages, filters,
              sortConfig>>

\* The Delete Report button of the modal: confirmDelete runs up to the
\* delete of the Action Plans, with the target of this render.
confirmDelete ==
  /\ reportToDelete # None
  /\ cd_pc = "idle"
  /\ cd_confirms < MaxConfirms
  /\ cd_confirms' = cd_confirms + 1
  /\ cd_target' = reportToDelete
  /\ cd_reqs' = <<>>
  /\ cd_pc' = "deleteActionPlans"
  /\ tableFrame
  /\ UNCHANGED <<tbl_loading, reportToDelete, tbl_toast, lr_pending, lr_answered,
                 sortClicks, exported>>
  /\ UNCHANGED <<storeVars, notTableVars>>

\* catch: the error toast; the modal stays.
CD_Fail ==
  /\ tbl_toast' = "Failed to delete report"
  /\ cd_pc' = "idle"
  /\ UNCHANGED <<tbl_loading, reportToDelete, lr_pending, lr_answered,
                 sortClicks, exported>>

\* A delete of the Action Plans whose error is not looked at.
CD_DeleteActionPlans_Unchecked(ok) ==
  /\ cd_pc = "deleteActionPlans"
  /\ cd_reqs' = Append(cd_reqs,
                       Request("delete", "action_plans", ok,
                               {cd_target[1].id}))
  /\ action_plans' =
       IF ok THEN {p \in action_plans : p.observation_id # cd_target[1].id}
       ELSE action_plans
  /\ cd_pc' = "deleteObservation"
  /\ UNCHANGED <<tbl_toast, tbl_loading, reportToDelete, lr_pending, lr_answered,
                 sortClicks, exported>>
  /\ tableFrame
  /\ UNCHANGED <<cd_target, cd_confirms>>
  /\ UNCHANGED <<observation_details, observation_categories, storage,
                 nextObsId, nextPlanId, now>>
  /\ UNCHANGED notTableVars

\* await supabase.from('action_plans').delete()
\*   .eq('observation_id', reportToDelete.id)
CD_DeleteActionPlans(ok) ==
  /\ cd_pc = "deleteActionPlans"
  /\ cd_reqs' = Append(cd_reqs,
                       Request("delete", "action_plans", ok,
                               {cd_target[1].id}))
  /\ IF ok
     THEN /\ action_plans' =
               {p \in action_plans : p.observation_id # cd_target[1].id}
          /\ cd_pc' = "deleteObservation"
          /\ UNCHANGED <<tbl_toast, tbl_loading, reportToDelete, lr_pending, lr_answered,
                 sortClicks, exported>>
     ELSE /\ CD_Fail
          /\ UNCHANGED action_plans
  /\ tableFrame
  /\ UNCHANGED <<cd_target, cd_confirms>>
  /\ UNCHANGED <<observation_details, observation_categories, storage,
                 nextObsId, nextPlanId, now>>
  /\ UNCHANGED notTableVars

\* await supabase.from('observation_details').delete()
\*   .eq('id', reportToDelete.id), then the toast, the modal is closed and
\* loadReports is called.
CD_DeleteObservation(ok) ==
  /\ cd_pc = "deleteObservation"
  /\ cd_reqs' = Append(cd_reqs,
                       Request("delete", "observation_details", ok,
                               {cd_target[1].id}))
  /\ IF ok
     THEN /\ observation_details' =
               {o \in observation_details : o.id # cd_target[1].id}
          /\ tbl_toast' = "Report deleted successfully"
          /\ reportToDelete' = None
          /\ tbl_loading' = TRUE
          /\ lr_pending' = lr_pending \cup {Query}
          /\ UNCHANGED <<lr_answered, sortClicks, exported>>
          /\ cd_pc' = "idle"
     ELSE /\ CD_Fail
          /\ UNCHANGED observation_details
  /\ tableFrame
  /\ UNCHANGED <<cd_target, cd_confirms>>
  /\ UNCHANGED <<observation_categories, action_plans, storage, nextObsId,
                 nextPlanId, now>>
  /\ UNCHANGED notTableVars

\* ------------------------------------------------ SafetyReportPDF
\* An image address is a string; `kind' is what loadImage's prefix tests
\* see of it ("data" for data:image..., "http" for http..., "key" for a
\* bare storage key).
DataImage == [text |-> "data:image/png;base64,AAAA", kind |-> "data"]
HttpImage == [text |-> "https://host/a.png", kind |-> "http"]
KeyA == [text |-> "u1/a.png", kind |-> "key"]
Addresses == {DataImage, HttpImage, KeyA}

\* What a slot can hold: null, the address itself (an embedded literal), or
\* the base64 conversion of what a fetch of `text' from `from' answered.
NullValue == [from |-> "null", text |-> ""]
Literal(url) == [from |-> "literal", text |-> url.text]
Base64(target) == target

NoEntry == <<>>
NoAddress == <<>>
EmptyCache == [a \in Addresses |-> NoEntry]

\* The address fetched for url: a bare key is expanded against its bucket.
ImageUrl(url, isActionPlan) ==
  IF url.kind = "http"
  THEN [from |-> "http", text |-> url.text]
  ELSE [from |-> IF isActionPlan THEN "action-plan-images"
                 ELSE "safety-images",
        text |-> url.text]

\* cachedImage && Date.now() - cachedImage.timestamp < CACHE_TTL
Fresh(entry) == entry # NoEntry /\ now - entry[1].timestamp < CACHE_TTL

\* The same test with the window closed one millisecond later.
Fresh_AtTTL(entry) ==
  entry # NoEntry /\ now - entry[1].timestamp <= CACHE_TTL

\* The report values rendered: with or without a main image, and up to
\* MaxPdfPlans Action Plans, each with or without an image.
PdfPlanImages(n) ==
  [1..n -> {NoAddress} \cup {<<a>> : a \in {KeyA, HttpImage}}]

PdfPlan(i, image) ==
  [id |-> IF i = 1 THEN "p1" ELSE IF i = 2 THEN "p2" ELSE "p3",
   supporting_image |-> image]

PdfReports ==
  {[supportingImage |-> m,
    actionPlans |-> [i \in DOMAIN p |-> PdfPlan(i, p[i])]] :
     m \in {NoAddress} \cup {<<a>> : a \in {DataImage, KeyA}},
     p \in UNION {PdfPlanImages(n) : n \in 0..MaxPdfPlans}}

\* The loadImage calls of one loadImages pass, in order.
RECURSIVE PlanImages(_, _)
PlanImages(plans, i) ==
  IF i > Len(plans) THEN <<>>
  ELSE (IF plans[i].supporting_image # NoAddress
        THEN <<[url |-> plans[i].supporting_image[1], isActionPlan |-> TRUE,
                key |-> plans[i].id]>>
        ELSE <<>>) \o PlanImages(plans, i + 1)

Images(report) ==
  (IF report.supportingImage # NoAddress
   THEN <<[url |-> report.supportingImage[1], isActionPlan |-> FALSE,
           key |-> "main"]>>
   ELSE <<>>) \o PlanImages(report.actionPlans, 1)

CurrentImage == Images(pdf_report)[pdf_i]

\* urls[key] = value
SetUrl(u, key, value) ==
  {e \in u : e.key # key} \cup {[key |-> key, url |-> value]}

pdfFrame ==
  /\ UNCHANGED <<observation_details, observation_categories, action_plans,
                 storage, nextObsId, nextPlanId>>
  /\ UNCHANGED <<formVars, submitVars, viewVars, updateVars, saveEditedVars,
                 tableVars, confirmVars>>

PdfIdle ==
  /\ imageCache = EmptyCache
  /\ pdf_pc = "idle"
  /\ pdf_i = 0
  /\ urls = {}
  /\ imageUrls = {}
  /\ pdf_fetches = <<>>
  /\ pdf_returned = <<>>
  /\ pdf_renders = 0

\* No document is rendered.
PdfInit ==
  /\ pdf_report = [supportingImage |-> NoAddress, actionPlans |-> <<>>]
  /\ PdfIdle

\* A document is rendered: the component mounts and its effect starts
\* loadImages.
loadImages ==
  /\ pdf_pc \in {"idle", "done"}
  /\ pdf_renders < MaxRenders
  /\ pdf_renders' = pdf_renders + 1
  /\ urls' = {}
  /\ imageUrls' = {}
  /\ pdf_returned' = <<>>
  /\ IF Images(pdf_report) = <<>>
     THEN pdf_pc' = "done" /\ pdf_i' = 0
     ELSE pdf_pc' = "call" /\ pdf_i' = 1
  /\ UNCHANGED <<imageCache, pdf_report, pdf_fetches, now>>
  /\ pdfFrame

\* loadImage returns value to loadImages, which keeps it when it is not
\* null and goes on to the next image, or stores urls after the last.
Returned(value) ==
  LET u == IF value # NullValue
           THEN SetUrl(urls, CurrentImage.key, value) ELSE urls
  IN /\ pdf_returned' = Append(pdf_returned, value)
     /\ urls' = u
     /\ IF pdf_i = Len(Images(pdf_report))
        THEN pdf_pc' = "done" /\ imageUrls' = u /\ pdf_i' = pdf_i
        ELSE pdf_pc' = "call" /\ imageUrls' = imageUrls /\ pdf_i' = pdf_i + 1
     /\ UNCHANGED <<pdf_report, pdf_renders, now>>
     /\ pdfFrame

\* loadImage with the freshness window closed one millisecond later.
loadImage_FreshAtTTL ==
  /\ pdf_pc = "call"
  /\ LET url == CurrentImage.url
         cachedImage == imageCache[url]
     IN IF Fresh_AtTTL(cachedImage)
        THEN Returned(cachedImage[1].url)
             /\ UNCHANGED <<imageCache, pdf_fetches>>
        ELSE IF url.kind = "data"
        THEN Returned(Literal(url)) /\ UNCHANGED <<imageCache, pdf_fetches>>
        ELSE /\ pdf_pc' = "fetch"
             /\ pdf_fetches' =
                  Append(pdf_fetches, ImageUrl(url, CurrentImage.isActionPlan))
             /\ UNCHANGED <<imageCache, pdf_report, pdf_i, urls, imageUrls,
                            pdf_returned, pdf_renders, now>>
             /\ pdfFrame

\* loadImage(url, isActionPlan) up to its fetch.
loadImage ==
  /\ pdf_pc = "call"
  /\ LET url == CurrentImage.url
         cachedImage == imageCache[url]
     IN IF Fresh(cachedImage)
        THEN Returned(cachedImage[1].url)
             /\ UNCHANGED <<imageCache, pdf_fetches>>
        ELSE IF url.kind = "data"
        THEN Returned(Literal(url)) /\ UNCHANGED <<imageCache, pdf_fetches>>
        ELSE /\ pdf_pc' = "fetch"
             /\ pdf_fetches' =
                  Append(pdf_fetches, ImageUrl(url, CurrentImage.isActionPlan))
             /\ UNCHANGED <<imageCache, pdf_report, pdf_i, urls, imageUrls,
                            pdf_returned, pdf_renders, now>>
             /\ pdfFrame

FetchOutcomes == {"ok", "failed", "unreadable"}

\* The fetch is answered and the blob converted.  "failed": the fetch
\* rejects, the response is not ok or response.blob() rejects, and the
\* catch returns null.  "unreadable": the FileReader fails, onloadend
\* resolves with its null result, which is cached and returned.
LoadImageDone(outcome) ==
  /\ pdf_pc = "fetch"
  /\ LET url == CurrentImage.url
         base64 == IF outcome = "ok"
                   THEN Base64(pdf_fetches[Len(pdf_fetches)]) ELSE NullValue
     IN /\ imageCache' =
             IF outcome = "failed" THEN imageCache
             ELSE [imageCache EXCEPT
                     ![url] = <<[url |-> base64, timestamp |-> now]>>]
        /\ Returned(base64)
  /\ UNCHANGED pdf_fetches

\* Time passes: Date.now() reaches t.
ClockValues ==
  {1, CACHE_TTL - 1, CACHE_TTL, CACHE_TTL + 1, 2 * CACHE_TTL}

Elapse(t) ==
  /\ now < t
  /\ now' = t
  /\ UNCHANGED <<observation_details, observation_categories, action_plans,
                 storage, nextObsId, nextPlanId>>
  /\ UNCHANGED pdfVars
  /\ UNCHANGED <<formVars, submitVars, viewVars, updateVars, saveEditedVars,
                 tableVars, confirmVars>>

\* renderImage(url): the image shown in the slot of url, or the
\* 'Image not available' placeholder (NullValue).
renderImage(url) ==
  LET found == {e \in imageUrls : e.key = url.text}
  IN IF found = {} THEN NullValue ELSE (CHOOSE e \in found : TRUE).url

\* ----------------------------------------------------- specifications
NextSubmit ==
  \/ handleSubmit
  \/ \E u \in {Null, UserId} : GetUser(u)
  \/ \E ok \in BOOLEAN : UploadImage(ok)
  \/ \E outcome \in {"ok", "error", "norow"} : InsertObservation(outcome)
  \/ \E ok \in BOOLEAN : InsertCategories(ok)
  \/ \E ok \in BOOLEAN : InsertActionPlans(ok)

NextForm ==
  \/ \E d \in Drafts : FillForm(d)
  \/ \E c \in Categories : handleCategorySelect(c)
  \/ \E s \in {"open", "closed"} : setStatus(s)
  \/ handleImageChange(FileA)
  \/ \E v \in {"yes", "no"} : setActionPlanRequired(v)
  \/ \E p \in PlanDrafts : setCurrentActionPlan(p)
  \/ \E addAnother \in BOOLEAN : handleSaveActionPlan(addAnother)

\* The form as constructed, driven by its setters.
InitForm == StoreInit /\ FormInit /\ SubmitInit /\ ViewInit /\ TableInit
  /\ PdfInit

SpecForm == InitForm /\ [][NextForm]_vars

\* A form the user has worked on (each of these states is a state of
\* SpecForm), at the moment Submit is first clicked.
FilledForm ==
  /\ form \in {InitialForm, Filled}
  /\ status \in {"open", "closed"}
  /\ imageFile \in {NoFile, FileA}
  /\ selectedCategories \in {<<>>, <<"c1">>, <<"c2", "c1">>}
  /\ actionPlans \in StagedLists
  /\ currentActionPlan = EmptyPlan
  /\ actionPlanRequired \in {"no", "yes"}

Init == StoreInit /\ FilledForm /\ SubmitInit /\ ViewInit /\ TableInit
  /\ PdfInit

Next == NextSubmit \/ Tick

Spec == Init /\ [][Next]_vars

\* Every combination of empty and filled required fields, submitted.
AnyDraft ==
  /\ form \in AllDrafts
  /\ status = "open"
  /\ imageFile \in {NoFile, FileA}
  /\ selectedCategories \in {<<>>, <<"c1">>}
  /\ actionPlans \in {<<>>, <<PlanA>>}
  /\ currentActionPlan = EmptyPlan
  /\ actionPlanRequired \in {"no", "yes"}

InitValidate ==
  StoreInit /\ AnyDraft /\ SubmitInit /\ ViewInit /\ TableInit
  /\ PdfInit

SpecValidate == InitValidate /\ [][Next]_vars

\* ReportView on Observation 1, from its mounting on.  The store holds
\* what the create form and earlier edits left: Observation 1 open or
\* closed, with up to MaxStoredPlans Action Plans, each open or closed, and
\* another Observation with a plan and a category link of its own.
OtherObservation == [OldObservation EXCEPT !.id = 2]

StoredPlan(id, obsId, st) ==
  [id |-> id, observation_id |-> obsId, action |-> "act",
   due_date |-> "2023-02-01", responsible_person |-> "rp",
   follow_up_contact |-> "fc", status |-> st, supporting_image |-> NoImage,
   created_by |-> UserId]

StoredStatuses ==
  UNION {[1..n -> {"open", "closed"}] : n \in 0..MaxStoredPlans}

EditStoreInit ==
  /\ \E st \in {"open", "closed"} :
       observation_details =
         {[OldObservation EXCEPT !.status = st], OtherObservation}
  /\ observation_categories \in
       { {[observation_id |-> 2, category_id |-> "c2"]} \cup
           {[observation_id |-> 1, category_id |-> c] : c \in cs} :
         cs \in {{"c1"}} }
  /\ \E sts \in StoredStatuses :
       action_plans =
         {StoredPlan(i, 1, sts[i]) : i \in 1..Len(sts)} \cup
         {StoredPlan(MaxStoredPlans + 1, 2, "open")}
  /\ storage = [b \in {"safety-images", "action-plan-images"} |-> {}]
  /\ nextObsId = 3
  /\ nextPlanId = MaxStoredPlans + 2
  /\ now = 0

InitEditForm ==
  EditStoreInit /\ FormInit /\ SubmitInit /\ ViewInit /\ TableInit
  /\ PdfInit

\* The view is loaded and the user works on the inputs of the form.
NextEditForm ==
  \/ \E ok \in BOOLEAN : loadReport(ok)
  \/ \E v \in {"SOP", "RES"} : RV_setSubject(v)
  \/ \E v \in {"", "finding"} : RV_setReportGroup(v)
  \/ \E v \in {"open", "closed"} : RV_setStatus(v)
  \/ \E c \in Categories : RV_handleCategorySelect(c)
  \/ \E f \in {NoFile, FileA} : RV_handleImageChange(f)
  \/ \E v \in {"yes", "no"} : RV_setActionPlanRequired(v)

SpecEditForm == InitEditForm /\ [][NextEditForm]_vars

\* The form as loaded for Observation 1 and worked on by the user (each of
\* these states is a state of SpecEditForm), before the first click on a
\* button that starts a handler.
LoadedView ==
  /\ rv_loading = FALSE
  /\ rv_error = ""
  /\ \E row \in {o \in observation_details : o.id = rv_id} :
       /\ rv_report = <<row>>
       /\ rv_form \in {FormOfRow(row),
                       [FormOfRow(row) EXCEPT !.subject = "SOP",
                                              !.reportGroup = "finding"]}
  /\ rv_status \in {"open", "closed"}
  /\ rv_selectedCategories \in {<<>>, <<"c2">>, <<"c1", "c2">>}
  /\ rv_actionPlans =
       RowsById({p \in action_plans : p.observation_id = rv_id})
  /\ rv_actionPlanRequired = IF Len(rv_actionPlans) > 0 THEN "yes" ELSE "no"
  /\ rv_imageFile \in {NoFile, FileA}

InitEdit ==
  /\ EditStoreInit /\ FormInit /\ SubmitInit
  /\ ViewIdle /\ LoadedView /\ TableInit /\ PdfInit

\* The buttons of the loaded form and the steps of the handlers they start.
NextEdit ==
  \/ \E i \in 1..MaxStoredPlans, b \in BOOLEAN : handleEditActionPlan(i, b)
  \/ \E b \in BOOLEAN : handleCancelEditActionPlan(b)
  \/ setEditedActionPlan("edited")
  \/ handleEditedActionPlanImageChange(FileA)
  \/ handleSaveEditedActionPlan
  \/ \E u \in {Null, UserId} : SE_GetUser(u)
  \/ \E ok \in BOOLEAN : SE_UploadImage(ok)
  \/ \E ok \in BOOLEAN : SE_UpdateActionPlan(ok)
  \/ RV_handleSubmit
  \/ \E u \in {Null, UserId} : RV_GetUser(u)
  \/ \E ok \in BOOLEAN : RV_UploadImage(ok)
  \/ \E ok \in BOOLEAN : RV_UpdateObservation(ok)
  \/ \E ok \in BOOLEAN : RV_CloseActionPlans(ok)
  \/ \E ok \in BOOLEAN : RV_DeleteCategories(ok)
  \/ \E ok \in BOOLEAN : RV_InsertCategories(ok)

SpecEdit == InitEdit /\ [][NextEdit]_vars

\* The table over a store that holds Observation 1 with up to
\* MaxStoredPlans Action Plans and Observation 2 with one.
InitTable ==
  EditStoreInit /\ FormInit /\ SubmitInit /\ ViewInit /\ TableInit
  /\ PdfInit

NextTable ==
  \/ \E q \in lr_pending, ok \in BOOLEAN : LoadReportsDone(q, ok)
  \/ \E i \in 1..Len(reports) : handleDelete(reports[i])
  \/ onCancel
  \/ confirmDelete
  \/ \E ok \in BOOLEAN : CD_DeleteActionPlans(ok)
  \/ \E ok \in BOOLEAN : CD_DeleteObservation(ok)

SpecTable == InitTable /\ [][NextTable]_vars

\* The table over MaxRows Observations or fewer, with filters and a sort
\* order already chosen; the user pages through it.
PagedRow(i) ==
  [OldObservation EXCEPT
     !.id = i,
     !.status = IF i % 2 = 1 THEN "open" ELSE "closed",
     !.consequences = IF i % 3 = 0 THEN "major" ELSE "minor",
     !.date = IF i % 4 < 2 THEN "2023-01-01" ELSE "2023-02-01"]

PagedStoreInit ==
  /\ \E n \in {0, 1, reportsPerPage, MaxRows} :
       /\ observation_details = {PagedRow(i) : i \in 1..n}
       /\ observation_categories =
            {[observation_id |-> i, category_id |-> "c1"] : i \in 1..n}
       /\ nextObsId = n + 1
  /\ action_plans = {}
  /\ storage = [b \in {"safety-images", "action-plan-images"} |-> {}]
  /\ nextPlanId = 1
  /\ now = 0

\* The table as mounted, but for the filters and the sort order.
PagedTableInit ==
  /\ reports = <<>>
  /\ tbl_loading = TRUE
  /\ tbl_error = ""
  /\ currentPage = 1
  /\ totalPages = 1
  /\ reportToDelete = None
  /\ filters \in {NoFilters, [NoFilters EXCEPT !.severity = "minor"]}
  /\ sortConfig \in {[key |-> "created_at", direction |-> "desc"],
                     [key |-> "status", direction |-> "asc"]}
  /\ tbl_toast = Null
  /\ lr_pending = {Query}
  /\ lr_answered = None
  /\ sortClicks = <<>>
  /\ exported = None
  /\ cd_pc = "idle"
  /\ cd_target = None
  /\ cd_reqs = <<>>
  /\ cd_confirms = 0

InitPages ==
  PagedStoreInit /\ FormInit /\ SubmitInit /\ ViewInit /\ PagedTableInit
  /\ PdfInit

NextPages ==
  \/ \E q \in lr_pending, ok \in BOOLEAN : LoadReportsDone(q, ok)
  \/ previousPage
  \/ nextPage
  \/ \E page \in 1..MaxPage : setCurrentPage(page)
  \/ \E v \in {"", "open"} : setFilters("status", v)

SpecPages == InitPages /\ [][NextPages]_vars

\* The table with its column headers clicked.
NextSort ==
  \/ \E q \in lr_pending, ok \in BOOLEAN : LoadReportsDone(q, ok)
  \/ \E key \in SortableColumns : handleSort(key)

SpecSort == InitTable /\ [][NextSort]_vars

\* Action Plans staged in a valid form, which is then submitted.
InitStage ==
  /\ StoreInit
  /\ form = Filled
  /\ status = "open"
  /\ imageFile \in {NoFile, FileA}
  /\ selectedCategories = <<"c1">>
  /\ actionPlans = <<>>
  /\ currentActionPlan = EmptyPlan
  /\ actionPlanRequired = "yes"
  /\ SubmitInit /\ ViewInit /\ TableInit /\ PdfInit

NextStage ==
  \/ \E p \in PlanDrafts : setCurrentActionPlan(p)
  \/ \E addAnother \in BOOLEAN : handleSaveActionPlan(addAnother)
  \/ NextSubmit

SpecStage == InitStage /\ [][NextStage]_vars

\* The create form with each option its subject and report-group selects
\* offer.
CreateSubjects == {"SOR", "SOP", "RES"}
CreateReportGroups == {"operations", "maintenance", "safety", "contractors"}

OfferedForms ==
  {[Filled EXCEPT !.subject = s, !.reportGroup = g] :
     s \in CreateSubjects, g \in CreateReportGroups}

InitOffered ==
  /\ StoreInit
  /\ form \in OfferedForms
  /\ status = "open"
  /\ imageFile \in {NoFile, FileA}
  /\ selectedCategories = <<"c1">>
  /\ actionPlans \in {<<>>, <<PlanA>>}
  /\ currentActionPlan = EmptyPlan
  /\ actionPlanRequired = "yes"
  /\ SubmitInit /\ ViewInit /\ TableInit /\ PdfInit

SpecOffered == InitOffered /\ [][NextSubmit]_vars

\* The Action Plan rows of the edit view: the view has loaded Observation 1
\* unchanged, and the user edits, saves and deletes rows.
InitRows ==
  /\ InitEdit
  /\ rv_form = FormOfRow(rv_report[1])
  /\ rv_status = rv_report[1].status
  /\ rv_selectedCategories = <<>>
  /\ rv_imageFile = NoFile

NextRows ==
  \/ \E i \in 1..MaxStoredPlans, b \in BOOLEAN : handleEditActionPlan(i, b)
  \/ \E b \in BOOLEAN : handleCancelEditActionPlan(b)
  \/ setEditedActionPlan("edited")
  \/ handleSaveEditedActionPlan
  \/ \E u \in {Null, UserId} : SE_GetUser(u)
  \/ \E ok \in BOOLEAN : SE_UpdateActionPlan(ok)
  \/ \E i \in 1..MaxStoredPlans : handleDeleteActionPlan(i)
  \/ \E ok \in BOOLEAN : DeleteActionPlanDone(ok)
  \/ \E u \in {Null, UserId} : RV_GetUser(u)

SpecRows == InitRows /\ [][NextRows]_vars

\* The three flows with a busy flag, each remote call answered in the end:
\* the create form filled in and submitted, or the edit view loaded with a
\* closed status, a category and an image chosen and then updated, next to
\* the table loading its first page.
InitLive ==
  /\ \/ /\ StoreInit /\ FilledForm /\ ViewInit
        /\ status = "open"
        /\ Len(selectedCategories) <= 1
        /\ Len(actionPlans) <= 1
        /\ actionPlanRequired = "yes"
     \/ /\ EditStoreInit /\ FormInit /\ ViewIdle /\ LoadedView
        /\ rv_status = "closed"
        /\ rv_selectedCategories = <<"c2">>
        /\ rv_imageFile = FileA
  /\ SubmitInit /\ TableInit /\ PdfInit

CreateAnswered ==
  \/ \E u \in {Null, UserId} : GetUser(u)
  \/ \E ok \in BOOLEAN : UploadImage(ok)
  \/ \E outcome \in {"ok", "error", "norow"} : InsertObservation(outcome)
  \/ \E ok \in BOOLEAN : InsertCategories(ok)
  \/ \E ok \in BOOLEAN : InsertActionPlans(ok)

UpdateAnswered ==
  \/ \E u \in {Null, UserId} : RV_GetUser(u)
  \/ \E ok \in BOOLEAN : RV_UploadImage(ok)
  \/ \E ok \in BOOLEAN : RV_UpdateObservation(ok)
  \/ \E ok \in BOOLEAN : RV_CloseActionPlans(ok)
  \/ \E ok \in BOOLEAN : RV_DeleteCategories(ok)
  \/ \E ok \in BOOLEAN : RV_InsertCategories(ok)

LoadAnswered == \E q \in lr_pending, ok \in BOOLEAN : LoadReportsDone(q, ok)

NextLive ==
  \/ handleSubmit
  \/ CreateAnswered
  \/ RV_handleSubmit
  \/ UpdateAnswered
  \/ LoadAnswered

\* Every awaited call settles: the network layer answers or times out.
SpecLive ==
  /\ InitLive /\ [][NextLive]_vars
  /\ WF_vars(CreateAnswered)
  /\ WF_vars(UpdateAnswered)
  /\ WF_vars(LoadAnswered)

\* The table paged through and exported.
NextExport ==
  \/ \E q \in lr_pending, ok \in BOOLEAN : LoadReportsDone(q, ok)
  \/ previousPage
  \/ nextPage
  \/ exportToCSV

SpecExport == InitPages /\ [][NextExport]_vars

\* Documents rendered from one report value while time passes.
InitPdf ==
  /\ StoreInit /\ FormInit /\ SubmitInit /\ ViewInit /\ TableInit
  /\ pdf_report \in PdfReports
  /\ PdfIdle

NextPdf ==
  \/ loadImages
  \/ loadImage
  \/ \E outcome \in FetchOutcomes : LoadImageDone(outcome)
  \/ \E t \in ClockValues : Elapse(t)

SpecPdf == InitPdf /\ [][NextPdf]_vars

\* ============================================================ claims
Dependents == {"observation_categories", "action_plans"}

IsObservationInsert(r) == r.op = "insert" /\ r.target = "observation_details"

\* The store as it is before the client writes anything.
StoreUntouched ==
  /\ observation_details = {OldObservation}
  /\ observation_categories = {[observation_id |-> 1, category_id |-> "c1"]}
  /\ action_plans = {}
  /\ storage = [b \in {"safety-images", "action-plan-images"} |-> {}]

\* The draft misses a required field, or has no category selected, or
\* requires an Action Plan and has none staged.
Incomplete ==
  \/ \E f \in RequiredFields : form[f] = ""
  \/ Len(selectedCategories) = 0
  \/ actionPlanRequired = "yes" /\ Len(actionPlans) = 0

\* C1: once Submit was clicked on an incomplete draft, the error map is not
\* empty, the handler has returned, and it has issued no auth, storage or
\* store request: the store is as it was.
C1_IncompleteDraftIsBlocked ==
  (Incomplete /\ submits > 0) =>
    /\ validationErrors # {}
    /\ reqs = <<>>
    /\ pc = "idle"
    /\ ~loading
    /\ toast = "Please fill in all required fields"
    /\ navigatedTo = NoRoute
    /\ StoreUntouched

\* C1 witness: the complete draft with no category selected and no Action
\* Plan, submitted.
C1_Witness ==
  /\ submits > 0
  /\ \A f \in RequiredFields : form[f] # ""
  /\ selectedCategories = <<>>
  /\ actionPlans = <<>>
  /\ validationErrors = {"categories"}

\* C2: in the requests of one submit, a write to observation_categories or
\* action_plans comes only after a successful insert into
\* observation_details, and none comes after a failed one; every dependent
\* row in the store references an Observation row of the store.
C2_ObservationBeforeDependents ==
  /\ \A i \in 1..Len(reqs) :
       reqs[i].target \in Dependents =>
         \E j \in 1..(i - 1) : IsObservationInsert(reqs[j]) /\ reqs[j].ok
  /\ \A j \in 1..Len(reqs) :
       (IsObservationInsert(reqs[j]) /\ ~reqs[j].ok) =>
         /\ j = Len(reqs)
         /\ pc = "idle"
  /\ \A r \in observation_categories \cup action_plans :
       \E o \in observation_details : o.id = r.observation_id

\* C2 witness: a submit whose Observation insert failed, and one that wrote
\* Action Plans, both happen.
C2_Witness ==
  /\ Len(reqs) > 0
  /\ IsObservationInsert(reqs[Len(reqs)])
  /\ ~reqs[Len(reqs)].ok
  /\ submits = 2
  /\ observation_categories # {[observation_id |-> 1, category_id |-> "c1"]}

\* C3: every category-link row and every Action Plan row a submit sends
\* carries the id the Observation insert returned, and the rows it stored
\* carry it too: never the id of another Observation.
C3_DependentsCarryTheNewId ==
  /\ \A i \in 1..Len(reqs) :
       reqs[i].target \in Dependents =>
         /\ savedReport # None
         /\ reqs[i].obsIds = {savedReport[1].id}
  /\ \A p \in action_plans :
       /\ savedReport # None
       /\ p.observation_id = savedReport[1].id
  /\ navigatedTo # NoRoute =>
       /\ {l.category_id : l \in {x \in observation_categories :
             x.observation_id = savedReport[1].id}} = Range(selectedCategories)
       /\ Cardinality({p \in action_plans :
             p.observation_id = savedReport[1].id}) = Len(actionPlans)

\* C3 witness: a submit with two staged Action Plans and two categories has
\* succeeded, as the second submit of the form.
C3_Witness ==
  /\ navigatedTo # NoRoute
  /\ Len(actionPlans) = 2
  /\ Len(selectedCategories) = 2
  /\ Cardinality(action_plans) = 2
  /\ submits = 2
  /\ Cardinality(observation_details) = 3

\* C4: a failed upload ends the submit: the error is shown, the form stays,
\* and the submit issues no further request, so it writes no row.
C4_FailedUploadAborts ==
  \A i \in 1..Len(reqs) :
    (reqs[i].op = "upload" /\ ~reqs[i].ok) =>
      /\ i = Len(reqs)
      /\ pc = "idle"
      /\ ~loading
      /\ error = "storage error"
      /\ toast = error
      /\ navigatedTo = NoRoute
      /\ \A j \in 1..Len(reqs) : reqs[j].op # "insert"
      /\ submits = 1 => StoreUntouched

\* C4 witness: the first submit of a form with an image has failed at the
\* upload.
C4_Witness ==
  /\ submits = 1
  /\ imageFile # NoFile
  /\ Len(reqs) = 2
  /\ reqs[2].op = "upload"
  /\ ~reqs[2].ok
  /\ error = "storage error"

\* A submit has ended on a failed write of category links or Action Plans.
FailedDependent(i) ==
  /\ i \in 1..Len(reqs)
  /\ reqs[i].target \in Dependents
  /\ ~reqs[i].ok

DependentWriteFailed == \E i \in 1..Len(reqs) : FailedDependent(i)

\* C5: when a dependent write fails, the submit issues no delete, the
\* Observation row it inserted is still in the store without the rows of
\* the failed write, and the error is reported.
C5_NoRollback ==
  \A i \in 1..Len(reqs) :
    FailedDependent(i) =>
      /\ pc = "idle"
      /\ savedReport # None
      /\ savedReport[1] \in observation_details
      /\ \A j \in 1..Len(reqs) : reqs[j].op # "delete"
      /\ error = IF reqs[i].target = "action_plans"
                 THEN "Failed to save action plans"
                 ELSE "Failed to save categories"
      /\ toast = error
      /\ ~loading
      /\ navigatedTo = NoRoute
      /\ \A p \in action_plans : p.observation_id # savedReport[1].id
      /\ reqs[i].target = "observation_categories" =>
           \A l \in observation_categories :
             l.observation_id # savedReport[1].id

\* C5 witness: the Action Plan write failed after the Observation and its
\* category links were written.
C5_Witness ==
  /\ DependentWriteFailed
  /\ reqs[Len(reqs)].target = "action_plans"
  /\ \E l \in observation_categories : l.observation_id = savedReport[1].id

UpdateSucceeded == rv_navigatedTo # NoRoute

PlansOf(id) == {p \in action_plans : p.observation_id = id}

\* C7: after a successful update whose status is 'closed', every Action
\* Plan row of the Observation is closed, in the store and in the local
\* list; an update whose status is 'open' issues no write to action_plans.
C7_ClosedUpdateClosesEveryPlan ==
  /\ (UpdateSucceeded /\ rv_status = "closed") =>
       /\ \A p \in PlansOf(rv_id) : p.status = "closed"
       /\ \A i \in 1..Len(rv_actionPlans) :
            rv_actionPlans[i].status = "closed"
  /\ ((rv_pc # "idle" \/ UpdateSucceeded) /\ rv_status = "open") =>
       \A i \in 1..Len(rv_reqs) : rv_reqs[i].target # "action_plans"

\* C8: after a successful update, the category links stored for the
\* Observation are exactly the categories selected in the form, for every
\* selection, the empty one included.
C8_LinksEqualSelection ==
  UpdateSucceeded =>
    {l.category_id : l \in {x \in observation_categories :
        x.observation_id = rv_id}} = Range(rv_selectedCategories)

\* C9: confirmDelete sends the delete of the Observation row only as its
\* second request, after the delete of the Action Plans of the same
\* Observation has succeeded; a failed Action Plan delete is its last
\* request; after a successful confirmDelete neither the Observation nor an
\* Action Plan of it is stored, and no stored Action Plan references an
\* Observation that is not stored.
C9_PlansDeletedBeforeObservation ==
  /\ \A i \in 1..Len(cd_reqs) :
       cd_reqs[i].target = "observation_details" =>
         /\ i = 2
         /\ cd_reqs[1].target = "action_plans"
         /\ cd_reqs[1].ok
         /\ cd_reqs[1].obsIds = cd_reqs[2].obsIds
  /\ (Len(cd_reqs) >= 1 /\ ~cd_reqs[1].ok) =>
       /\ Len(cd_reqs) = 1
       /\ cd_pc = "idle"
       /\ tbl_toast = "Failed to delete report"
  /\ (Len(cd_reqs) = 2 /\ cd_reqs[2].ok) =>
       /\ PlansOf(cd_target[1].id) = {}
       /\ \A o \in observation_details : o.id # cd_target[1].id
  /\ \A p \in action_plans :
       \E o \in observation_details : o.id = p.observation_id

\* C9 witness: an Observation shown with Action Plans has been deleted, and
\* so have its Action Plans.
C9_Witness ==
  /\ Len(cd_reqs) = 2
  /\ cd_reqs[2].ok
  /\ cd_target[1].action_plans # {}
  /\ PlansOf(cd_target[1].id) = {}
  /\ action_plans # {}

\* C10: a click on Delete only records the clicked row as the target, with
\* no request and no change of the store or the rows; a request is sent
\* only by a running confirmDelete, started with a recorded target, and it
\* names that target; the store changes in no other step; Cancel clears
\* the target and changes neither the store nor the rows.
C10_TwoStepDelete ==
  [][ /\ (reportToDelete = None /\ reportToDelete' # None) =>
           /\ reportToDelete'[1] \in Range(reports)
           /\ UNCHANGED <<storeVars, confirmVars, reports>>
      /\ Len(cd_reqs') > Len(cd_reqs) =>
           /\ cd_pc # "idle"
           /\ cd_target # None
           /\ cd_target' = cd_target
           /\ cd_reqs' = Append(cd_reqs, cd_reqs'[Len(cd_reqs')])
           /\ cd_reqs'[Len(cd_reqs')].op = "delete"
           /\ cd_reqs'[Len(cd_reqs')].obsIds = {cd_target[1].id}
      /\ storeVars' # storeVars =>
           /\ cd_pc # "idle"
           /\ Len(cd_reqs') > Len(cd_reqs)
           /\ \A o \in observation_details \ observation_details' :
                o.id = cd_target[1].id
           /\ \A p \in action_plans \ action_plans' :
                p.observation_id = cd_target[1].id
      /\ (cd_pc = "idle" /\ cd_pc' # "idle") =>
           /\ reportToDelete # None
           /\ cd_target' = reportToDelete
           /\ cd_reqs' = <<>>
           /\ UNCHANGED storeVars
      /\ (reportToDelete # None /\ reportToDelete' = None /\ cd_pc' = cd_pc) =>
           UNCHANGED <<storeVars, confirmVars, reports>>
    ]_vars

\* C10 witness: after a confirm that failed, the modal was cancelled, then
\* another confirm deleted the Observation: the target was recorded twice.
C10_Witness ==
  /\ cd_confirms = 2
  /\ reportToDelete = None
  /\ Len(cd_reqs) = 1
  /\ ~cd_reqs[1].ok
  /\ cd_pc = "idle"

\* The rows that match the filters of a query, in its sort order.
MatchingRows(q) ==
  OrderBy({o \in observation_details : Matches(o, q.filters)},
          q.sortConfig.key, q.sortConfig.direction = "asc")

\* Rows [(k-1)*p, k*p) of a sequence, counted from 0.
PageOf(rows, k, p) ==
  SubSeq(rows, (k - 1) * p + 1,
         IF k * p < Len(rows) THEN k * p ELSE Len(rows))

\* C11: after an answered loadReports for page k, the rows displayed are
\* rows [(k-1)*10, k*10) of the matching rows in sort order, and the stored
\* page count is ceil(number of matching rows / 10).
C11_PageRowsAndPageCount ==
  (lr_answered # None /\ lr_answered[1].ok) =>
    LET q == lr_answered[1].query
        rows == MatchingRows(q)
    IN /\ reports =
            [i \in 1..Len(PageOf(rows, q.currentPage, reportsPerPage)) |->
               ReportRow(PageOf(rows, q.currentPage, reportsPerPage)[i])]
       /\ totalPages = CeilDiv(Len(rows), reportsPerPage)

\* The first half of C11 alone.
PageRowsOnly ==
  (lr_answered # None /\ lr_answered[1].ok) =>
    LET q == lr_answered[1].query
        rows == MatchingRows(q)
    IN reports =
         [i \in 1..Len(PageOf(rows, q.currentPage, reportsPerPage)) |->
            ReportRow(PageOf(rows, q.currentPage, reportsPerPage)[i])]

\* The number of clicks on the column clicked last since the last click on
\* another column.
RECURSIVE RunLength(_)
RunLength(clicks) ==
  IF Len(clicks) <= 1 THEN Len(clicks)
  ELSE IF clicks[Len(clicks) - 1] = clicks[Len(clicks)]
  THEN 1 + RunLength(SubSeq(clicks, 1, Len(clicks) - 1))
  ELSE 1

\* C12: the sort key is the column clicked last, and the direction is
\* ascending after the first, third, ... click in a row on that column and
\* descending after the second, fourth, ...; so a click on another column
\* starts at ascending.
C12_SortToggles ==
  sortClicks # <<>> =>
    /\ sortConfig.key = sortClicks[Len(sortClicks)]
    /\ sortConfig.direction =
         IF RunLength(sortClicks) % 2 = 1 THEN "asc" ELSE "desc"

\* C12 witness: the same column clicked three times in a row, and, in
\* another run, a column clicked after two clicks on another one.
C12_Witness ==
  /\ sortClicks = <<"status", "status", "status">>
  /\ sortConfig = [key |-> "status", direction |-> "asc"]

\* A step of loadImages in which a loadImage call is made.
LoadImageCalled ==
  /\ pdf_pc = "call"
  /\ <<pdf_pc, pdf_i, pdf_returned>>' # <<pdf_pc, pdf_i, pdf_returned>>

\* A step in which a fetch is issued.
FetchIssued == Len(pdf_fetches') = Len(pdf_fetches) + 1

\* A step in which a fetch ends and loadImage returns an image.
FetchSucceeded ==
  /\ pdf_pc = "fetch"
  /\ pdf_pc' # "fetch"
  /\ pdf_returned'[Len(pdf_returned')] # NullValue

\* On success the entry of the address is the value returned, stamped with
\* the time of the store.
EntryReplaced ==
  imageCache'[CurrentImage.url] =
    <<[url |-> pdf_returned'[Len(pdf_returned')], timestamp |-> now]>>

\* C13 as stated: a call for an address whose entry is less than 5 minutes
\* old returns the cached value and issues no fetch; every other call issues
\* a fetch, and a successful fetch replaces the entry with a new timestamp.
C13_CacheWindow_AnyAddress ==
  /\ [][LoadImageCalled =>
          LET entry == imageCache[CurrentImage.url]
          IN IF entry # NoEntry /\ now - entry[1].timestamp < CACHE_TTL
             THEN /\ pdf_fetches' = pdf_fetches
                  /\ pdf_returned'[Len(pdf_returned')] = entry[1].url
             ELSE FetchIssued]_vars
  /\ [][FetchSucceeded => EntryReplaced]_vars

\* C13: as above for the addresses that are fetched at all; a call for an
\* embedded data:image address never has an entry, issues no fetch and
\* returns the address itself.
C13_CacheWindow ==
  /\ [][LoadImageCalled =>
          LET url == CurrentImage.url
              entry == imageCache[url]
          IN IF entry # NoEntry /\ now - entry[1].timestamp < CACHE_TTL
             THEN /\ pdf_fetches' = pdf_fetches
                  /\ pdf_returned'[Len(pdf_returned')] = entry[1].url
             ELSE IF url.kind = "data"
             THEN /\ entry = NoEntry
                  /\ pdf_fetches' = pdf_fetches
                  /\ pdf_returned'[Len(pdf_returned')] = Literal(url)
             ELSE FetchIssued]_vars
  /\ [][FetchSucceeded => EntryReplaced]_vars

\* C13 witness: a report with one fetched image rendered twice, the second
\* time after the first entry's window had closed: two fetches, and the
\* entry carries the second timestamp.
C13_Witness ==
  /\ pdf_renders = 2
  /\ pdf_pc = "done"
  /\ pdf_report = [supportingImage |-> <<KeyA>>, actionPlans |-> <<>>]
  /\ Len(pdf_fetches) = 2
  /\ imageCache[KeyA] # NoEntry
  /\ imageCache[KeyA][1].timestamp = CACHE_TTL + 1
  /\ pdf_returned = <<ImageUrl(KeyA, FALSE)>>

\* C14: the file exportToCSV writes has one row per report in memory, in
\* the same order (so never more than a page of rows), and each row's
\* Severity and Status are the report's consequences and status.
C14_ExportRows ==
  [][exported' # exported =>
       LET rows == exported'[1]
       IN /\ Len(rows) = Len(reports)
          /\ Len(rows) <= reportsPerPage
          /\ \A i \in 1..Len(rows) :
               /\ rows[i].ReportID = reports[i].id
               /\ rows[i].Severity = reports[i].consequences
               /\ rows[i].Status = reports[i].status]_vars

\* C14 witness: a full page exported while the store holds more matching
\* rows than the page.
C14_Witness ==
  /\ exported # None
  /\ Len(exported[1]) = reportsPerPage
  /\ Cardinality({o \in observation_details : Matches(o, filters)})
       > reportsPerPage

\* A step in which a running create submit ends.
SubmitEnds == pc # "idle" /\ pc' = "idle"

\* Every request of the log was answered with success.
EveryStepSucceeded(log) == \A i \in 1..Len(log) : log[i].ok

\* C15: a submit that ends after every step succeeded navigates to
\* /reports/<id of the Observation it stored>; a submit that ends after a
\* failed step navigates nowhere and leaves the form with the error set and
\* loading off; and the create form navigates in no other step.
C15_NavigatesIffAllSucceeded ==
  [][/\ SubmitEnds =>
          IF EveryStepSucceeded(reqs')
          THEN /\ savedReport' # None
               /\ savedReport'[1] \in observation_details'
               /\ navigatedTo' = <<"reports", savedReport'[1].id>>
               /\ error' = Null
          ELSE /\ navigatedTo' = navigatedTo
               /\ error' # Null
               /\ ~loading'
               /\ Mounted'
     /\ navigatedTo' # navigatedTo =>
          SubmitEnds /\ EveryStepSucceeded(reqs')]_vars

\* C15 witness: a submit whose Action Plan insert failed left the form in
\* place, and the next submit succeeded and navigated.
C15_Witness ==
  /\ submits = 2
  /\ pc = "idle"
  /\ navigatedTo # NoRoute
  /\ EveryStepSucceeded(reqs)
  /\ Cardinality(observation_details) = 3

\* C16: whenever a busy flag is on (create submit: loading; edit update:
\* saving; table load: loading), it is off again later, whatever the
\* remote calls answer.
C16_BusyFlagsClear ==
  /\ loading ~> ~loading
  /\ saving ~> ~saving
  /\ tbl_loading ~> ~tbl_loading

\* C16 witness: an edit update that failed at a remote call has returned
\* the view to the idle state with saving off.
C16_Witness ==
  /\ rv_submits > 0
  /\ rv_pc = "idle"
  /\ ~saving
  /\ rv_reqs # <<>>
  /\ ~rv_reqs[Len(rv_reqs)].ok
  /\ ~tbl_loading

\* A step in which handleSaveActionPlan rejects the draft.
DraftRejected ==
  toast' # toast /\ toast' = "Please fill in all action plan fields"

\* C17: the staged list changes only by the current draft being appended
\* when its four required fields are filled; a rejected draft leaves the list
\* unchanged; no step of the form before a submit sends a request or changes
\* the store, and Action Plan rows are written by the submit only.
C17_StagingInMemory ==
  [][/\ actionPlans' # actionPlans =>
          /\ ActionPlanComplete(currentActionPlan)
          /\ actionPlans' = Append(actionPlans, currentActionPlan)
     /\ DraftRejected =>
          /\ ~ActionPlanComplete(currentActionPlan)
          /\ actionPlans' = actionPlans
     /\ (actionPlans' # actionPlans \/ DraftRejected) =>
          /\ reqs' = reqs
          /\ UNCHANGED storeVars
     /\ action_plans' # action_plans => pc = "insertActionPlans"
     /\ pc = "idle" /\ submits = 0 /\ pc' = "idle" =>
          /\ reqs' = <<>>
          /\ action_plans' = {}]_vars

\* C17 witness: two drafts staged and nothing stored or requested yet.
C17_Witness ==
  /\ actionPlans = <<PlanA, PlanB>>
  /\ submits = 0
  /\ reqs = <<>>
  /\ action_plans = {}
  /\ toast = "Please fill in all action plan fields"

\* C18: a step that appends a valid draft either closes the action-plan
\* sub-form (addAnother false) or leaves it open with an emptied draft
\* (addAnother true).
C18_SaveClosesOrEmpties ==
  [][actionPlans' # actionPlans =>
       \/ actionPlanRequired' # "yes"
       \/ actionPlanRequired' = "yes" /\ currentActionPlan' = EmptyPlan]_vars

\* What the create form does instead: the sub-form stays open after every
\* save, with the draft emptied or left as it was.
SaveLeavesSubFormOpen ==
  [][actionPlans' # actionPlans =>
       /\ actionPlanRequired' = "yes"
       /\ currentActionPlan' \in {EmptyPlan, currentActionPlan}]_vars

\* The rows of the list rendered as an edit form
\* (editingActionPlanIndex === index).
RowsInEditMode ==
  {i \in 1..Len(rv_actionPlans) : editingActionPlanIndex = i}

\* C19: at most one row is in edit mode, and a step that puts a row in
\* edit mode, from no row or from another row, leaves that row alone in edit
\* mode with the edit form holding its listed values and no chosen file;
\* the list itself does not change, so the edits of the row left are gone.
C19_ExclusiveEditMode ==
  /\ [](Cardinality(RowsInEditMode) <= 1)
  /\ [][(editingActionPlanIndex' # editingActionPlanIndex
           /\ editingActionPlanIndex' # 0) =>
          /\ RowsInEditMode' = {editingActionPlanIndex'}
          /\ editedActionPlan' = <<rv_actionPlans[editingActionPlanIndex']>>
          /\ editedActionPlanImageFile' = NoFile
          /\ rv_actionPlans' = rv_actionPlans]_vars

\* C19 witness: Edit was clicked on row 2 while row 1 was in edit mode (its
\* save, started from that edit form, is still in flight).
C19_Witness ==
  /\ editingActionPlanIndex = 2
  /\ editedActionPlan = <<rv_actionPlans[2]>>
  /\ se_closure # None
  /\ se_closure[1].index = 1
  /\ se_closure[1].plan.action = "edited"

\* A step in which a fetch or the conversion of its answer fails: loadImage
\* returns null for the image.
LoadFailed ==
  /\ pdf_pc = "fetch"
  /\ pdf_pc' # "fetch"
  /\ pdf_returned'[Len(pdf_returned')] = NullValue

\* The failure costs this image only: loadImages goes on to the next image
\* or, after the last, stores the urls it has; the urls loaded before stay.
OnlyThisImageLost ==
  /\ pdf_pc' = IF pdf_i = Len(Images(pdf_report)) THEN "done" ELSE "call"
  /\ urls' = urls
  /\ Len(pdf_returned') = Len(pdf_returned) + 1

\* Every pass of loadImages that ends has called loadImage for every image
\* of the report, and every image whose load returned null is rendered as
\* the 'Image not available' placeholder.
PassCompleted ==
  pdf_pc = "done" =>
    /\ Len(pdf_returned) = Len(Images(pdf_report))
    /\ \A i \in 1..Len(pdf_returned) :
         pdf_returned[i] = NullValue =>
           renderImage(Images(pdf_report)[i].url) = NullValue

\* C20: a failed fetch or conversion makes loadImage return null for that
\* image only, stores nothing in the cache, does not stop loadImages, and
\* the image's slot shows the placeholder.
C20_FailureDegradesPerImage ==
  /\ [][LoadFailed => OnlyThisImageLost /\ imageCache' = imageCache]_vars
  /\ []PassCompleted

\* C20 but for the cache: what holds of every failure.
FailureLosesOneImage ==
  /\ [][LoadFailed => OnlyThisImageLost]_vars
  /\ []PassCompleted

\* C28: once loadImages has stored its urls, the slot of every image whose
\* load returned an image shows that image.
C28_LoadedImageIsShown ==
  pdf_pc = "done" =>
    \A i \in 1..Len(pdf_returned) :
      pdf_returned[i] # NullValue =>
        renderImage(Images(pdf_report)[i].url) = pdf_returned[i]

\* What is rendered instead: every slot shows the placeholder, whatever
\* was loaded.
EverySlotIsPlaceholder ==
  \A i \in 1..Len(Images(pdf_report)) :
    renderImage(Images(pdf_report)[i].url) = NullValue

\* The bucket an image of the pass is stored in.
BucketOf(image) ==
  IF image.isActionPlan THEN "action-plan-images" ELSE "safety-images"

\* C29: the image loadImage returns for a bare storage key was fetched from
\* the bucket of its kind: safety-images for the Observation's image,
\* action-plan-images for an Action Plan's.
C29_BucketIsolation ==
  \A i \in 1..Len(pdf_returned) :
    LET image == Images(pdf_report)[i]
    IN (image.url.kind = "key" /\ pdf_returned[i] # NullValue) =>
         pdf_returned[i].from = BucketOf(image)

\* What holds: the image returned for a bare key was fetched under that key
\* from one of the two buckets.
ReturnedForTheKey ==
  \A i \in 1..Len(pdf_returned) :
    LET image == Images(pdf_report)[i]
    IN (image.url.kind = "key" /\ pdf_returned[i] # NullValue) =>
         /\ pdf_returned[i].text = image.url.text
         /\ pdf_returned[i].from \in {"safety-images", "action-plan-images"}

\* C30: after a confirmDelete that succeeded, the store holds no category
\* link of the deleted Observation.
C30_LinksDeletedWithObservation ==
  (Len(cd_reqs) = 2 /\ cd_reqs[2].ok) =>
    \A l \in observation_categories : l.observation_id # cd_target[1].id

\* What confirmDelete sends: requests to action_plans and
\* observation_details only.
NoLinkDeleteRequested ==
  \A i \in 1..Len(cd_reqs) :
    cd_reqs[i].target \in {"action_plans", "observation_details"}

\* C24: once every table query in flight has completed, and none of them
\* failed, the displayed rows are the rows of the latest query, the one for
\* the page, filters and sort now selected.
C24_LatestQueryIsDisplayed ==
  (lr_pending = {} /\ lr_answered # None /\ tbl_error = "") =>
    reports = QueryResult(Query)

\* What the table displays: the rows of the query answered last.
LastAnswerIsDisplayed ==
  (lr_answered # None /\ tbl_error = "") =>
    reports = QueryResult(lr_answered[1].query)

\* The larger of two numbers.
Max(a, b) == IF a > b THEN a ELSE b

\* C25: after a reload that completed, the current page lies between 1 and
\* max(1, totalPages).
C25_PageWithinRange ==
  (lr_pending = {} /\ lr_answered # None /\ lr_answered[1].ok) =>
    /\ 1 <= currentPage
    /\ currentPage <= Max(1, totalPages)

\* What the table keeps: the current page is at least 1.
PageAtLeastOne == currentPage >= 1

\* The Observation rows the create form has persisted: every row but the one
\* stored before the form was opened.
PersistedByDraft == observation_details \ {OldObservation}

\* C23: over any number of submit attempts of one draft, at most one
\* Observation row is persisted.
C23_AtMostOneObservationPerDraft == Cardinality(PersistedByDraft) <= 1

\* What the create flow keeps: at most one Observation row per submit
\* attempt.
AtMostOneObservationPerSubmit == Cardinality(PersistedByDraft) <= submits

\* C26: every Observation the create flow persists passes the validation of
\* the edit flow when its stored values are loaded into the edit form.
C26_CreatedPassesEditValidation ==
  \A o \in PersistedByDraft : ValidationErrorOf(FormOfRow(o)) = Null

\* What the edit flow answers for every Observation the create flow
\* persists: one of its two value errors.
CreatedFailsEditValidation ==
  \A o \in PersistedByDraft :
    ValidationErrorOf(FormOfRow(o)) \in
      {"Invalid subject value", "Invalid report group value"}

\* C21: the key of every upload about to be sent (Observation image in the
\* create and the edit flow, Action Plan image in the edit flow) differs
\* from every key uploaded to its bucket before.
C21_UploadKeyIsNew ==
  /\ pc = "upload" =>
       UploadKey(now, imageFile) \notin storage["safety-images"]
  /\ rv_pc = "upload" =>
       UploadKey(now, sanitizeFilename(rv_imageFile))
         \notin storage["safety-images"]
  /\ se_pc = "upload" =>
       UploadKey(now, sanitizeFilename(se_closure[1].file))
         \notin storage["action-plan-images"]

\* What the bucket's refusal of an existing key leaves: no two Observations
\* reference the same stored object.
NoSharedObservationImage ==
  \A o1, o2 \in observation_details :
    (o1.supporting_image # NoImage
       /\ o1.supporting_image = o2.supporting_image) => o1 = o2

\* C22: in every store state the client produces, an Observation with
\* status 'closed' has no Action Plan with status 'open'.
C22_ClosedHasNoOpenPlan ==
  \A o \in observation_details :
    o.status = "closed" =>
      \A p \in action_plans : p.observation_id = o.id => p.status # "open"

\* What the create flow stores: each Action Plan with the status it was
\* staged with, whatever the status of the Observation.
PlansKeepStagedStatus ==
  \A p \in action_plans :
    \E i \in 1..Len(actionPlans) : p.status = actionPlans[i].status

\* The entries of the local Action Plan list of the edit view.
LocalPlans == {rv_actionPlans[i] : i \in 1..Len(rv_actionPlans)}

\* C27: with no save and no delete of an Action Plan in flight, the local
\* list of the edit view holds exactly the stored Action Plans of the
\* Observation, each once and with its stored values.
C27_ListMatchesStore ==
  (RV_Mounted /\ se_pc = "idle" /\ del_closure = None) =>
    /\ LocalPlans = PlansOf(rv_id)
    /\ Len(rv_actionPlans) = Cardinality(PlansOf(rv_id))

\* What the handlers keep: the list a handler writes is the list of the
\* render its click saw, so the local list is never longer than that.
ListNeverGrows == Len(rv_actionPlans) <= MaxStoredPlans

====
